---- MODULE Spec2Model ----
(***************************************************************************)
(* vecl::robin_set<T> with the default template arguments                  *)
(* (StoreHash = false, Inlined = true), i.e.                               *)
(* detail::inline_robin_set_impl<T, Hash, Equal, false>: an open           *)
(* addressing hash set with Robin Hood probing and backward-shift          *)
(* deletion (include/vecl/robin_set.hpp).                                  *)
(*                                                                         *)
(* The member functions are operators over a table record                 *)
(* [arr, size, max_probes]; the actions apply them to the state.           *)
(* Slot i of the backing buffer is element i + 1 of the sequence.          *)
(*                                                                         *)
(* SpecIndirect and SpecCtor run detail::robin_set_impl, the variant with  *)
(* heap allocated nodes (Inlined = false), on the same variables: there    *)
(* _arr holds addresses of the heap, and ctor the constructor at work.     *)
(* SpecSimple runs vecl::simple_set (include/vecl/simple_set.hpp), the     *)
(* tombstone variant, and SpecWrap the default set with a distance_type    *)
(* of few values.                                                          *)
(***************************************************************************)
EXTENDS Integers, Sequences, FiniteSets, TLC

VARIABLES
    _arr,         \* the backing buffer, a sequence of nodes
    _size,        \* count of live entries
    _max_probes,  \* bound of the lookup and erase scans
    hsel,         \* which Hash functor the set was instantiated with
    last,         \* the last public call and what it returned: [op, ret]
    given,        \* the keys the caller has inserted and not erased or cleared since
    heap,         \* the nodes operator new handed out (indirect variant)
    ctor,         \* the constructor that built the set and how far it has got
    growing,      \* the frame of a running _grow_table: its locals and the
                  \* insert that called it
    slot,         \* one node on its own: the node, the last call on it and the
                  \* values constructed and destroyed in it so far
    StoreHash,    \* the template argument StoreHash of the instantiation
    dist_modulus, \* the number of values of distance_type
    _load,        \* count of slots that are not nullptr (simple_set)
    peer          \* a robin_set_impl that is given the same calls as the set

vars == <<_arr, _size, _max_probes, hsel, last, given, heap, ctor, growing, slot,
          StoreHash, dist_modulus, _load, peer>>

\* ------------------------------------------------------------------ bounds
\* keys the callers may pass: 0 .. NumKeys - 1
NumKeys == 8

\* keys of the growth scenario: 0 .. StressN - 1
StressN == 20

\* the number of values of the scaled-down distance_type
ScaledModulus == 4

Keys == 0 .. (NumKeys - 1)

\* addresses of the heap the nodes of the indirect variant are allocated on
HeapSize == NumKeys

\* size hints the constructors are called with: 0 .. MaxHint
MaxHint == 8

\* longest range or literal list a constructor is called with
MaxRange == 9

\* largest probe count a node on its own is constructed with
MaxSlotProbes == 3

\* how many values are constructed in a node on its own
MaxSlotValues == 4

\* how many allocations of one call succeed before one throws; no call makes
\* more than two (the new buffer, the new node)
AllocBudgets == 0 .. 2

StressKeys == 0 .. (StressN - 1)

\* the Hash functors the set is instantiated with, see Hash
HashSelectors == {0, 1}

\* value of a slot that holds no object
NoKey == -1

\* ------------------------------------------------------- program constants
\* inline_robin_set_impl() : _arr(8)
DefaultCapacity == 8

\* distance_type = uint16_t has 2^16 values
Uint16Modulus == 65536

\* arithmetic on probe counts is modulo the number of values of distance_type
DistModulus == dist_modulus

\* --------------------------------------------------------------- utilities
Max(a, b) == IF a >= b THEN a ELSE b

\* bit j of the natural x
Bit(x, j) == (x \div (2 ^ j)) % 2

\* a & b for a mask b below 2^11 (the bits of a above the mask do not count)
BitAnd(a, b) ==
      Bit(a, 0) * Bit(b, 0)
    + 2 * Bit(a, 1) * Bit(b, 1)
    + 4 * Bit(a, 2) * Bit(b, 2)
    + 8 * Bit(a, 3) * Bit(b, 3)
    + 16 * Bit(a, 4) * Bit(b, 4)
    + 32 * Bit(a, 5) * Bit(b, 5)
    + 64 * Bit(a, 6) * Bit(b, 6)
    + 128 * Bit(a, 7) * Bit(b, 7)
    + 256 * Bit(a, 8) * Bit(b, 8)
    + 512 * Bit(a, 9) * Bit(b, 9)
    + 1024 * Bit(a, 10) * Bit(b, 10)

\* the Hash functor, a template parameter of the set.  Selector 0 is the
\* identity (std::hash<int> of libstdc++, as the tests run it); selector
\* s >= 1 maps runs of s + 1 consecutive keys to one hash value and spaces
\* the runs 7 apart, so that ideal slots collide, neighbour and wrap around.
Hash(s, k) == IF s = 0 THEN k ELSE 7 * (k \div (s + 1))

\* Hash{}(key) of the instantiation at hand
HashOf(k) == Hash(hsel, k)

\* seq.hash() of probe_type seq(Hash{}(key), capacity): the hash the sequence
\* was started with, at every step
SeqHash(k) == HashOf(k)

\* ---------------------------------------------------------- probe sequence
\* the capacities whose mask capacity - 1 has all its low bits set
PowersOfTwo == {1, 2, 4, 8, 16, 32, 64, 128, 256, 512, 1024}

\* linear_probe_seq<1, true>::offset(k): the slot index k steps ahead of
\* step i of the sequence that starts at hash, (hash + i + k) & (capacity - 1).
\* With capacity = 2^n the mask keeps the low n bits, which is the remainder
\* modulo 2^n; any other capacity is masked bit by bit.
Offset(hash, i, capacity) ==
    IF capacity \in PowersOfTwo
        THEN (hash + i) % capacity
        ELSE BitAnd(hash + i, capacity - 1)

\* power_of_two_growth::next
NextCapacity(capacity) == capacity * 2

\* power_of_two_growth::start: the smallest power of two >= 8 that is
\* strictly greater than size_hint
StartCapacity(size_hint) ==
    CHOOSE c \in PowersOfTwo :
        /\ c >= 8 /\ c > size_hint
        /\ \A d \in PowersOfTwo : (d >= 8 /\ d > size_hint) => c <= d

\* ------------------------------------------------------------------- slots
\* inline_set_node<false>: a default constructed node
EmptyNode == [alive |-> FALSE, value |-> NoKey, probes |-> 0]

\* construct that does not look at _alive
construct_overwrites(node, probe_count, key) ==
    [alive |-> TRUE, value |-> key, probes |-> probe_count]

\* inline_set_node<false>::construct(probe_count, args...)
construct(node, probe_count, key) ==
    IF ~node.alive
        THEN [alive |-> TRUE, value |-> key, probes |-> probe_count]
        ELSE node

\* destroy that leaves probes as it was
destroy_keeps_probes(node) == [node EXCEPT !.alive = FALSE, !.value = NoKey]

\* inline_set_node<false>::destroy(), inline_set_node<true>::destroy(): the
\* members destroy does not assign (_hash of the caching kind) keep their value
destroy(node) == [node EXCEPT !.alive = FALSE, !.value = NoKey, !.probes = 0]

\* inline_set_node<true>: a default constructed node, with the cached hash
HashedEmptyNode == [alive |-> FALSE, value |-> NoKey, probes |-> 0, hash |-> 0]

\* inline_set_node<true>::construct(hash, probe_count, args...)
hashed_construct(node, hash, probe_count, key) ==
    IF ~node.alive
        THEN [alive |-> TRUE, value |-> key, probes |-> probe_count, hash |-> hash]
        ELSE node

\* a default constructed node of the instantiation's node_type,
\* inline_set_node<StoreHash>
DefaultNode == IF StoreHash THEN HashedEmptyNode ELSE EmptyNode

\* if constexpr (StoreHash) node.construct(hash, probe_count, key);
\* else node.construct(probe_count, key);
construct_node(node, hash, probe_count, key) ==
    IF StoreHash
        THEN hashed_construct(node, hash, probe_count, key)
        ELSE construct(node, probe_count, key)

\* the hash a node is constructed with when it is moved: _hash of the
\* caching kind, none otherwise
node_hash(node) == IF StoreHash THEN node.hash ELSE 0

\* how many values a call of construct on the node constructs:
\* std::construct_at runs under if (!_alive)
construct_at_calls(node) == IF node.alive THEN 0 ELSE 1

\* how many values a call of destroy on the node destroys:
\* std::destroy_at runs under if (_alive)
destroy_at_calls(node) == IF node.alive THEN 1 ELSE 0

\* what get() raises on a node that is not alive, std::bad_optional_access
BadOptionalAccess == -2

\* inline_set_node<false>::get()
get(node) == IF ~node.alive THEN BadOptionalAccess ELSE node.value

\* operator=(inline_set_node&&) that constructs *this from rhs and leaves rhs
\* as it was: a copy
MoveAssign_copies(lhs, rhs) ==
    IF lhs.alive /\ rhs.alive
        THEN [lhs |-> [lhs EXCEPT !.value = rhs.value],
              rhs |-> [rhs EXCEPT !.value = lhs.value]]
    ELSE IF lhs.alive
        THEN [lhs |-> destroy(lhs),
              rhs |-> construct_node(rhs, node_hash(lhs), lhs.probes, lhs.value)]
    ELSE IF rhs.alive
        THEN [lhs |-> construct_node(lhs, node_hash(rhs), rhs.probes, rhs.value),
              rhs |-> rhs]
    ELSE [lhs |-> lhs, rhs |-> rhs]

\* inline_set_node<false>::operator=(inline_set_node&& rhs): the pair of
\* nodes (*this, rhs) after the assignment
MoveAssign(lhs, rhs) ==
    IF lhs.alive /\ rhs.alive
        THEN [lhs |-> [lhs EXCEPT !.value = rhs.value],
              rhs |-> [rhs EXCEPT !.value = lhs.value]]
    ELSE IF lhs.alive
        THEN [lhs |-> destroy(lhs),
              rhs |-> construct_node(rhs, node_hash(lhs), lhs.probes, lhs.value)]
    ELSE IF rhs.alive
        THEN [lhs |-> construct_node(lhs, node_hash(rhs), rhs.probes, rhs.value),
              rhs |-> destroy(rhs)]
    ELSE [lhs |-> lhs, rhs |-> rhs]

\* inline_set_node(inline_set_node&& rhs): the pair (new node, rhs)
MoveConstruct(rhs) == MoveAssign(DefaultNode, rhs)

\* simple_buffer<node_type>(ele_n): ele_n default constructed nodes
NewBuffer(ele_n) == [i \in 1 .. ele_n |-> DefaultNode]

\* a capacity() that reports one element more than the buffer has
Capacity_one_more(a) == Len(a) + 1

\* simple_buffer::capacity()
Capacity(a) == Len(a)

\* some node of the buffer is not alive
HasEmptySlot(a) == \E i \in 1 .. Len(a) : ~a[i].alive

\* ------------------------------------------------------------ table engine
\* The loops are recursive operators; a value a loop body names once and
\* uses several times (the slot index, a moved-out node, the result of a
\* call) is the parameter of a helper operator.

\* _insert_into(node&&): if constexpr (StoreHash) hash = node.hash();
\* else hash = Hash{}(node.get());
hash_of(node) == IF StoreHash THEN node.hash ELSE HashOf(get(node))

RECURSIVE _insert_into_node_loop(_, _, _, _)
\* _insert_into(node&&), "steal the slot": temp is the resident moved out of
\* slot off (mc = the moved-to temp and the moved-from slot), node takes the
\* slot and temp is re-inserted from its own probe count
_insert_into_node_steal(mp, a, node, off, mc) ==
    _insert_into_node_loop(Max(node.probes, mp),
                           [a EXCEPT ![off] = MoveAssign(mc.rhs, node).lhs],
                           mc.lhs, mc.lhs.probes)

\* the pass of the loop of _insert_into(node&&) without ++node.probes
_insert_into_node_at_keeps_probes(mp, a, node, i, off) ==
    IF ~a[off].alive
        THEN [arr |-> [a EXCEPT ![off] = MoveAssign(a[off], node).lhs],
              max_probes |-> Max(node.probes, mp),
              hung |-> FALSE, threw |-> FALSE]
    ELSE IF node.probes > a[off].probes
        THEN _insert_into_node_steal(mp, a, node, off, MoveConstruct(a[off]))
    ELSE _insert_into_node_loop(mp, a, node, i + 1)

\* the pass of the loop of _insert_into(node&&) that never steals a slot
_insert_into_node_at_no_steal(mp, a, node, i, off) ==
    IF ~a[off].alive
        THEN [arr |-> [a EXCEPT ![off] = MoveAssign(a[off], node).lhs],
              max_probes |-> Max(node.probes, mp),
              hung |-> FALSE, threw |-> FALSE]
    ELSE _insert_into_node_loop(mp, a,
                                [node EXCEPT !.probes = (node.probes + 1) % DistModulus],
                                i + 1)

\* one pass of the loop of _insert_into(node&&) at slot off
_insert_into_node_at(mp, a, node, i, off) ==
    IF ~a[off].alive
        THEN [arr |-> [a EXCEPT ![off] = MoveAssign(a[off], node).lhs],
              max_probes |-> Max(node.probes, mp),
              hung |-> FALSE, threw |-> FALSE]
    ELSE IF node.probes > a[off].probes
        THEN _insert_into_node_steal(mp, a, node, off, MoveConstruct(a[off]))
    ELSE _insert_into_node_loop(mp, a,
                                [node EXCEPT !.probes = (node.probes + 1) % DistModulus],
                                i + 1)

\* the loop of _insert_into(max_probes, arr, node_type&& node) with the probe
\* sequence at step i; yields the buffer and max_probes it leaves behind
_insert_into_node_loop(mp, a, node, i) ==
    _insert_into_node_at(mp, a, node, i, Offset(hash_of(node), i, Capacity(a)) + 1)

\* _insert_into(distance_type& max_probes, array_type_reference arr,
\*              node_type&& node).
\* threw: hash = Hash{}(node.get()) on a node that is not alive;
\* hung: the loop never returns, because no slot of the buffer is empty
_insert_into_node(mp, a, node) ==
    IF ~StoreHash /\ get(node) = BadOptionalAccess
        THEN [arr |-> a, max_probes |-> mp, hung |-> FALSE, threw |-> TRUE]
    ELSE IF ~HasEmptySlot(a)
        THEN [arr |-> a, max_probes |-> mp, hung |-> TRUE, threw |-> FALSE]
        ELSE _insert_into_node_loop(mp, a, node, node.probes)

\* _insert_into(key) that forgets max_probes after the recursive call
_insert_into_key_stolen_no_max(probe_count, r) ==
    [arr |-> r.arr, max_probes |-> r.max_probes, ret |-> TRUE, hung |-> r.hung, threw |-> r.threw]

\* _insert_into(key), after the recursive call r that re-inserted the
\* displaced node: max_probes = std::max(probe_count, max_probes); return true
_insert_into_key_stolen(probe_count, r) ==
    [arr |-> r.arr,
     max_probes |-> IF r.threw THEN r.max_probes ELSE Max(probe_count, r.max_probes),
     ret |-> ~r.threw, hung |-> r.hung, threw |-> r.threw]

\* "steal the slot" that re-inserts the slot it moved from, not the node it
\* moved to
_insert_into_key_steal_moved_from(mp, a, key, off, probe_count, mc) ==
    _insert_into_key_stolen(
        probe_count,
        _insert_into_node(mp,
                          [a EXCEPT ![off] = construct_node(mc.rhs, SeqHash(key), probe_count, key)],
                          mc.rhs))

\* "steal the slot" that constructs the key with a probe count of 0
_insert_into_key_steal_from_zero(mp, a, key, off, probe_count, mc) ==
    _insert_into_key_stolen(
        probe_count,
        _insert_into_node(mp,
                          [a EXCEPT ![off] = construct_node(mc.rhs, SeqHash(key), 0, key)],
                          mc.lhs))

\* "steal the slot" that never re-inserts the resident it moved out
_insert_into_key_steal_drops_resident(mp, a, key, off, probe_count, mc) ==
    [arr |-> [a EXCEPT ![off] = construct_node(mc.rhs, SeqHash(key), probe_count, key)],
     max_probes |-> Max(probe_count, mp),
     ret |-> TRUE, hung |-> FALSE, threw |-> FALSE]

\* _insert_into(key), "steal the slot": the resident is moved out of slot off
\* (mc), the key is constructed there, the resident is re-inserted
_insert_into_key_steal(mp, a, key, off, probe_count, mc) ==
    _insert_into_key_stolen(
        probe_count,
        _insert_into_node(mp,
                          [a EXCEPT ![off] = construct_node(mc.rhs, SeqHash(key), probe_count, key)],
                          mc.lhs))

RECURSIVE _insert_into_key_loop(_, _, _, _, _)
\* the pass without "steal the slot": plain linear probing
_insert_into_key_at_no_steal(mp, a, key, i, probe_count, off) ==
    IF ~a[off].alive
        THEN [arr |-> [a EXCEPT ![off] = construct_node(a[off], SeqHash(key), probe_count, key)],
              max_probes |-> Max(probe_count, mp),
              ret |-> TRUE, hung |-> FALSE, threw |-> FALSE]
    ELSE IF get(a[off]) = key
        THEN [arr |-> a, max_probes |-> mp, ret |-> FALSE, hung |-> FALSE, threw |-> FALSE]
    ELSE IF ~HasEmptySlot(a)
        THEN [arr |-> a, max_probes |-> mp, ret |-> FALSE, hung |-> TRUE, threw |-> FALSE]
    ELSE _insert_into_key_loop(mp, a, key, i + 1, (probe_count + 1) % DistModulus)

\* the pass without the test for an equal key
_insert_into_key_at_no_equal(mp, a, key, i, probe_count, off) ==
    IF ~a[off].alive
        THEN [arr |-> [a EXCEPT ![off] = construct_node(a[off], SeqHash(key), probe_count, key)],
              max_probes |-> Max(probe_count, mp),
              ret |-> TRUE, hung |-> FALSE, threw |-> FALSE]
    ELSE IF probe_count > a[off].probes
        THEN _insert_into_key_steal(mp, a, key, off, probe_count, MoveConstruct(a[off]))
    ELSE _insert_into_key_loop(mp, a, key, i + 1, (probe_count + 1) % DistModulus)

\* one pass of the loop of _insert_into(key) at slot off
_insert_into_key_at(mp, a, key, i, probe_count, off) ==
    IF ~a[off].alive
        THEN [arr |-> [a EXCEPT ![off] = construct_node(a[off], SeqHash(key), probe_count, key)],
              max_probes |-> Max(probe_count, mp),
              ret |-> TRUE, hung |-> FALSE, threw |-> FALSE]
    ELSE IF get(a[off]) = key
        THEN [arr |-> a, max_probes |-> mp, ret |-> FALSE, hung |-> FALSE, threw |-> FALSE]
    ELSE IF probe_count > a[off].probes
        THEN _insert_into_key_steal(mp, a, key, off, probe_count, MoveConstruct(a[off]))
    ELSE _insert_into_key_loop(mp, a, key, i + 1, (probe_count + 1) % DistModulus)

\* the loop of _insert_into(max_probes, arr, const key_type& key) with the
\* probe sequence at step i and the local probe_count
_insert_into_key_loop(mp, a, key, i, probe_count) ==
    _insert_into_key_at(mp, a, key, i, probe_count,
                        Offset(HashOf(key), i, Capacity(a)) + 1)

\* _insert_into(distance_type& max_probes, array_type_reference arr,
\*              const key_type& key)
_insert_into_key(mp, a, key) == _insert_into_key_loop(mp, a, key, 0, 0)

\* --arr[next].probes; arr[seq.offset()] = std::move(arr[next]): mv is the
\* pair of nodes after the move assignment
_try_erase_pull(a, cur, next, mv) == [a EXCEPT ![cur] = mv.lhs, ![next] = mv.rhs]

RECURSIVE _try_erase_shift(_, _, _)
\* the pass of the backward shift without --arr[next].probes
_try_erase_shift_at_keeps_probes(a, hash, i, cur, next) ==
    IF a[next].alive /\ a[next].probes # 0
        THEN _try_erase_shift(
                 _try_erase_pull(a, cur, next, MoveAssign(a[cur], a[next])),
                 hash, i + 1)
        ELSE a

\* one pass of the backward shift: cur is the empty slot, next the slot after it
_try_erase_shift_at(a, hash, i, cur, next) ==
    IF a[next].alive /\ a[next].probes # 0
        THEN _try_erase_shift(
                 _try_erase_pull(a, cur, next,
                     MoveAssign(a[cur],
                         [a[next] EXCEPT !.probes = (a[next].probes - 1) % DistModulus])),
                 hash, i + 1)
        ELSE a

\* _try_erase without the backward shift: the destroyed slot stays a hole
_try_erase_shift_leaves_hole(a, hash, i) == a

\* the backward shift of _try_erase: the slot at step i of the sequence was
\* just destroyed; pull the entries that follow one slot back
_try_erase_shift(a, hash, i) ==
    _try_erase_shift_at(a, hash, i,
                        Offset(hash, i, Capacity(a)) + 1,
                        Offset(hash, i + 1, Capacity(a)) + 1)

RECURSIVE _try_erase_loop(_, _, _, _)
\* one pass of the scan of _try_erase at slot off
_try_erase_at(t, a, key, i, off) ==
    IF ~a[off].alive THEN [arr |-> a, ret |-> FALSE]
    ELSE IF get(a[off]) = key
        THEN [arr |-> _try_erase_shift([a EXCEPT ![off] = destroy(a[off])], HashOf(key), i),
              ret |-> TRUE]
    ELSE _try_erase_loop(t - 1, a, key, i + 1)

\* the scan of _try_erase with t steps left and the probe sequence at step i
_try_erase_loop(t, a, key, i) ==
    IF t = 0
        THEN [arr |-> a, ret |-> FALSE]
        ELSE _try_erase_at(t, a, key, i, Offset(HashOf(key), i, Capacity(a)) + 1)

\* _try_erase that scans max_probes + 2 steps, one too many
_try_erase_long(mp, a, key) == _try_erase_loop(mp + 2, a, key, 0)

\* _try_erase(distance_type max_probes, array_type_reference arr,
\*            const key_type& key)
_try_erase(mp, a, key) == _try_erase_loop(mp + 1, a, key, 0)

RECURSIVE _contained_in_loop(_, _, _, _)
\* one pass of the scan of _contained_in at slot off
_contained_in_at(t, a, key, i, off) ==
    IF ~a[off].alive THEN FALSE
    ELSE IF get(a[off]) = key THEN TRUE
    ELSE _contained_in_loop(t - 1, a, key, i + 1)

\* the scan of _contained_in with t steps left
_contained_in_loop(t, a, key, i) ==
    IF t = 0
        THEN FALSE
        ELSE _contained_in_at(t, a, key, i, Offset(HashOf(key), i, Capacity(a)) + 1)

\* _contained_in that scans max_probes steps, one short
_contained_in_short(mp, a, key) == _contained_in_loop(mp, a, key, 0)

\* _contained_in(distance_type max_probes, const_array_type_reference arr,
\*               const key_type& key)
_contained_in(mp, a, key) == _contained_in_loop(mp + 1, a, key, 0)

\* ------------------------------------------------------------ the set
\* the object: its three data members
This == [arr |-> _arr, size |-> _size, max_probes |-> _max_probes]

\* a growth check that never asks for a larger buffer
_should_grow_never(t) == FALSE

\* _should_grow(): load_factor() > 0.75f, load_factor() = 1.f * size() / capacity()
_should_grow(t) == 4 * t.size > 3 * Capacity(t.arr)

RECURSIVE _grow_table_loop(_, _, _, _)
\* _grow_table, after _insert_into(new_max_probes, new_arr, std::move(ptr))
\* returned r: element i of the old buffer is moved from, the loop goes on
_grow_table_moved(old, i, r) ==
    IF r.hung \/ r.threw
        THEN [old |-> old, arr |-> r.arr, max_probes |-> r.max_probes,
              hung |-> r.hung, threw |-> r.threw]
        ELSE _grow_table_loop([old EXCEPT ![i] = destroy(old[i])],
                              i + 1, r.arr, r.max_probes)

\* the range-for of _grow_table over the old buffer, at element i
_grow_table_loop(old, i, new_arr, new_max_probes) ==
    IF i > Len(old)
        THEN [old |-> old, arr |-> new_arr, max_probes |-> new_max_probes, hung |-> FALSE, threw |-> FALSE]
    ELSE IF old[i].alive
        THEN _grow_table_moved(old, i,
                 _insert_into_node(new_max_probes, new_arr,
                                   [old[i] EXCEPT !.probes = 0]))
    ELSE _grow_table_loop(old, i + 1, new_arr, new_max_probes)

\* _grow_table that leaves _max_probes as it was
_grow_table_swap_keeps_max(t, r) ==
    IF r.threw
        THEN [arr |-> r.old, size |-> t.size, max_probes |-> t.max_probes,
              hung |-> FALSE, threw |-> TRUE]
        ELSE [arr |-> r.arr, size |-> t.size, max_probes |-> t.max_probes,
              hung |-> r.hung, threw |-> FALSE]

\* _grow_table: _arr = std::move(new_arr); _max_probes = new_max_probes;
\* an exception out of the loop leaves the old buffer, as far as it was
\* moved from, in place
_grow_table_swap(t, r) ==
    IF r.threw
        THEN [arr |-> r.old, size |-> t.size, max_probes |-> t.max_probes,
              hung |-> FALSE, threw |-> TRUE]
        ELSE [arr |-> r.arr, size |-> t.size, max_probes |-> r.max_probes,
              hung |-> r.hung, threw |-> FALSE]

\* _grow_table whose loop starts one element late
_grow_table_skips_first(t) ==
    _grow_table_swap(t, _grow_table_loop(t.arr, 2,
                                         NewBuffer(NextCapacity(Capacity(t.arr))), 0))

\* _grow_table whose new buffer has three times the capacity
_grow_table_triples(t) ==
    _grow_table_swap(t, _grow_table_loop(t.arr, 1, NewBuffer(3 * Capacity(t.arr)), 0))

\* _grow_table()
_grow_table(t) ==
    _grow_table_swap(t, _grow_table_loop(t.arr, 1,
                                         NewBuffer(NextCapacity(Capacity(t.arr))), 0))

\* insert that does ++_size whatever _insert_into returned
insert_finish_counts_always(g, r) ==
    IF g.hung \/ g.threw
        THEN [arr |-> g.arr, size |-> g.size, max_probes |-> g.max_probes,
              ret |-> FALSE, hung |-> g.hung, threw |-> g.threw]
        ELSE [arr |-> r.arr,
              size |-> g.size + 1,
              max_probes |-> r.max_probes,
              ret |-> r.ret, hung |-> r.hung, threw |-> r.threw]

\* insert, after _insert_into(_max_probes, _arr, key) returned r on the
\* (possibly grown) table g
insert_finish(g, r) ==
    IF g.hung \/ g.threw
        THEN [arr |-> g.arr, size |-> g.size, max_probes |-> g.max_probes,
              ret |-> FALSE, hung |-> g.hung, threw |-> g.threw]
        ELSE [arr |-> r.arr,
              size |-> IF r.ret THEN g.size + 1 ELSE g.size,
              max_probes |-> r.max_probes,
              ret |-> r.ret, hung |-> r.hung, threw |-> r.threw]

\* insert, after the growth check left the table g
insert_grown(g, key) == insert_finish(g, _insert_into_key(g.max_probes, g.arr, key))

\* insert, if (_should_grow()) _grow_table();
insert_grow(t) ==
    IF _should_grow(t)
        THEN _grow_table(t)
        ELSE [arr |-> t.arr, size |-> t.size, max_probes |-> t.max_probes, hung |-> FALSE, threw |-> FALSE]

\* insert that reports every call as a new key
insert_always_true(t, key) ==
    [insert_grown(insert_grow(t), key) EXCEPT !.ret = TRUE, !.size = t.size + 1]

\* insert(const key_type& key): the object afterwards and the value returned
insert(t, key) == insert_grown(insert_grow(t), key)

\* erase that decrements _size whatever _try_erase returned
erase_finish_always(t, r) ==
    [arr |-> r.arr, size |-> t.size - 1, max_probes |-> t.max_probes, ret |-> r.ret]

\* erase, after _try_erase(_max_probes, _arr, key) returned r
erase_finish(t, r) ==
    [arr |-> r.arr,
     size |-> IF r.ret THEN t.size - 1 ELSE t.size,
     max_probes |-> t.max_probes,
     ret |-> r.ret]

\* erase that forgets --_size
erase_keeps_size(t, key) ==
    [erase_finish(t, _try_erase(t.max_probes, t.arr, key)) EXCEPT !.size = t.size]

\* erase(const key_type& key)
erase(t, key) == erase_finish(t, _try_erase(t.max_probes, t.arr, key))

\* contains(const key_type& key)
contains(t, key) == _contained_in(t.max_probes, t.arr, key)

\* count whose scan is one step shorter than that of contains
count_short(t, key) == IF _contained_in_short(t.max_probes, t.arr, key) THEN 1 ELSE 0

\* count(const key_type& key)
count(t, key) == IF _contained_in(t.max_probes, t.arr, key) THEN 1 ELSE 0

\* size()
len(t) == t.size

\* capacity()
capacity(t) == Capacity(t.arr)

\* clear that forgets _max_probes = 0
clear_keeps_max_probes(t) ==
    [arr |-> [i \in 1 .. Len(t.arr) |-> destroy(t.arr[i])],
     size |-> 0,
     max_probes |-> t.max_probes]

\* clear that goes back to a buffer of the default capacity
clear_shrinks(t) ==
    [arr |-> NewBuffer(DefaultCapacity), size |-> 0, max_probes |-> 0]

\* clear()
clear(t) ==
    [arr |-> [i \in 1 .. Len(t.arr) |-> destroy(t.arr[i])],
     size |-> 0,
     max_probes |-> 0]

\* ------------------------------------------------- the indirect variant
\* detail::robin_set_impl<T, Hash, Equal, false>, what robin_set<T, Hash,
\* Equal, false, false> selects: the buffer holds node_type* and every entry
\* is a set_node<false> on the heap.  The heap maps each address to the block
\* there; its member functions work on a record [arr, size, max_probes, heap].

\* a slot that refers to no node
nullptr == 0

\* the addresses operator new hands out
Addrs == 1 .. HeapSize

\* a block that is not allocated
FreeBlock == [state |-> "free", value |-> NoKey, probes |-> 0]

\* the heap before the first allocation
NewHeap == [p \in Addrs |-> FreeBlock]

\* the blocks that are allocated and not yet freed
Allocated(h) == {p \in Addrs : h[p].state = "live"}

\* operator new: the lowest address that is free, nullptr when there is none
\* (std::bad_alloc)
Alloc(h) ==
    IF \A p \in Addrs : h[p].state # "free"
        THEN nullptr
        ELSE CHOOSE p \in Addrs :
                 h[p].state = "free" /\ \A q \in Addrs : h[q].state = "free" => p <= q

\* new node_type that caches the hash advanced by the probe count
NewNode_caches_offset(h, p, probe_count, key) ==
    [h EXCEPT ![p] = IF StoreHash
                         THEN [state |-> "live", value |-> key, probes |-> probe_count,
                               hash |-> SeqHash(key) + probe_count]
                         ELSE [state |-> "live", value |-> key, probes |-> probe_count]]

\* new node_type(seq.hash(), probe_count, key) at address p
NewNode(h, p, probe_count, key) ==
    [h EXCEPT ![p] = IF StoreHash
                         THEN [state |-> "live", value |-> key, probes |-> probe_count,
                               hash |-> SeqHash(key)]
                         ELSE [state |-> "live", value |-> key, probes |-> probe_count]]

\* robin_set_impl::_insert_into(node*): if constexpr (StoreHash)
\* hash = node->hash(); else hash = Hash{}(node->get());
ind_hash_of(h, node) == IF StoreHash THEN h[node].hash ELSE HashOf(h[node].value)

\* robin_set_impl::_compare_hash(hash, node)
ind_compare_hash(hash, h, node) == IF StoreHash THEN hash = h[node].hash ELSE TRUE

\* delete p; freeing a block that is not allocated is recorded in the block
Delete(h, p) ==
    [h EXCEPT ![p] = IF h[p].state = "live"
                         THEN FreeBlock
                         ELSE [state |-> "double_freed", value |-> NoKey, probes |-> 0]]

\* simple_buffer<node_type*>(ele_n, nullptr)
NewPtrBuffer(ele_n) == [i \in 1 .. ele_n |-> nullptr]

\* some slot of the buffer is nullptr
HasNullSlot(a) == \E i \in 1 .. Len(a) : a[i] = nullptr

RECURSIVE ind_insert_into_node_loop(_, _, _, _, _)
\* robin_set_impl::_insert_into(node*), after the recursive call r re-inserted
\* the displaced node: max_probes = std::max(node->probes, max_probes)
ind_insert_into_node_stolen(probes, r) ==
    [arr |-> r.arr, heap |-> r.heap, max_probes |-> Max(probes, r.max_probes), hung |-> r.hung]

\* one pass of the loop of robin_set_impl::_insert_into(node*) at slot off
ind_insert_into_node_at(mp, a, h, node, i, off) ==
    IF a[off] = nullptr
        THEN [arr |-> [a EXCEPT ![off] = node], heap |-> h,
              max_probes |-> Max(h[node].probes, mp), hung |-> FALSE]
    ELSE IF h[node].probes > h[a[off]].probes
        THEN ind_insert_into_node_stolen(
                 h[node].probes,
                 ind_insert_into_node_loop(mp, [a EXCEPT ![off] = node], h,
                                           a[off], h[a[off]].probes))
    ELSE ind_insert_into_node_loop(
             mp, a, [h EXCEPT ![node].probes = (h[node].probes + 1) % DistModulus],
             node, i + 1)

\* the loop of robin_set_impl::_insert_into(max_probes, arr, node_type* node)
\* with the probe sequence at step i
ind_insert_into_node_loop(mp, a, h, node, i) ==
    ind_insert_into_node_at(mp, a, h, node, i,
                            Offset(ind_hash_of(h, node), i, Capacity(a)) + 1)

\* robin_set_impl::_insert_into(distance_type& max_probes,
\*                              array_type_reference arr, node_type* node)
ind_insert_into_node(mp, a, h, node) ==
    IF ~HasNullSlot(a)
        THEN [arr |-> a, heap |-> h, max_probes |-> mp, hung |-> TRUE]
        ELSE ind_insert_into_node_loop(mp, a, h, node, h[node].probes)

\* robin_set_impl::_insert_into(key): operator new threw, nothing was assigned
ind_insert_into_key_threw(mp, a, h) ==
    [arr |-> a, heap |-> h, max_probes |-> mp,
     ret |-> FALSE, hung |-> FALSE, bad_alloc |-> TRUE]

\* robin_set_impl::_insert_into(key), after the recursive call r:
\* max_probes = std::max(probe_count, max_probes); return true
ind_insert_into_key_stolen(probe_count, r) ==
    [arr |-> r.arr, heap |-> r.heap, max_probes |-> Max(probe_count, r.max_probes),
     ret |-> TRUE, hung |-> r.hung, bad_alloc |-> FALSE]

\* "steal the slot" that empties the slot before operator new is called
ind_insert_into_key_steal_early(mp, a, h, key, off, probe_count, p) ==
    IF p = nullptr
        THEN ind_insert_into_key_threw(mp, [a EXCEPT ![off] = nullptr], h)
        ELSE ind_insert_into_key_stolen(
                 probe_count,
                 ind_insert_into_node(mp, [a EXCEPT ![off] = p],
                                      NewNode(h, p, probe_count, key), a[off]))

\* robin_set_impl::_insert_into(key), "steal the slot": node = arr[off], the
\* slot takes the new node at address p, node is re-inserted
ind_insert_into_key_steal(mp, a, h, key, off, probe_count, p) ==
    IF p = nullptr
        THEN ind_insert_into_key_threw(mp, a, h)
        ELSE ind_insert_into_key_stolen(
                 probe_count,
                 ind_insert_into_node(mp, [a EXCEPT ![off] = p],
                                      NewNode(h, p, probe_count, key), a[off]))

\* robin_set_impl::_insert_into(key), "found empty slot": the slot takes the
\* new node at address p
ind_insert_into_key_put(mp, a, h, key, off, probe_count, p) ==
    IF p = nullptr
        THEN ind_insert_into_key_threw(mp, a, h)
        ELSE [arr |-> [a EXCEPT ![off] = p],
              heap |-> NewNode(h, p, probe_count, key),
              max_probes |-> Max(probe_count, mp),
              ret |-> TRUE, hung |-> FALSE, bad_alloc |-> FALSE]

RECURSIVE ind_insert_into_key_loop(_, _, _, _, _, _, _)
\* one pass of the loop of robin_set_impl::_insert_into(key) at slot off; ok
\* tells whether operator new succeeds
ind_insert_into_key_at(mp, a, h, key, i, probe_count, ok, off) ==
    IF a[off] = nullptr
        THEN ind_insert_into_key_put(mp, a, h, key, off, probe_count,
                                     IF ok THEN Alloc(h) ELSE nullptr)
    ELSE IF h[a[off]].value = key
        THEN [arr |-> a, heap |-> h, max_probes |-> mp,
              ret |-> FALSE, hung |-> FALSE, bad_alloc |-> FALSE]
    ELSE IF probe_count > h[a[off]].probes
        THEN ind_insert_into_key_steal(mp, a, h, key, off, probe_count,
                                       IF ok THEN Alloc(h) ELSE nullptr)
    ELSE ind_insert_into_key_loop(mp, a, h, key, i + 1,
                                  (probe_count + 1) % DistModulus, ok)

\* the loop of robin_set_impl::_insert_into(key) with the probe sequence at
\* step i and the local probe_count
ind_insert_into_key_loop(mp, a, h, key, i, probe_count, ok) ==
    ind_insert_into_key_at(mp, a, h, key, i, probe_count, ok,
                           Offset(HashOf(key), i, Capacity(a)) + 1)

\* robin_set_impl::_insert_into(distance_type& max_probes,
\*                              array_type_reference arr, const key_type& key)
ind_insert_into_key(mp, a, h, key, ok) ==
    ind_insert_into_key_loop(mp, a, h, key, 0, 0, ok)

RECURSIVE _fill_slot(_, _, _, _)
\* one pass of the loop of _fill_slot: cur is the cleared slot, next the slot
\* after it
_fill_slot_at(a, h, hash, i, cur, next) ==
    IF a[next] # nullptr /\ h[a[next]].probes # 0
        THEN _fill_slot([a EXCEPT ![cur] = a[next]],
                        [h EXCEPT ![a[next]].probes = (h[a[next]].probes - 1) % DistModulus],
                        hash, i + 1)
        ELSE [arr |-> [a EXCEPT ![cur] = nullptr], heap |-> h]

\* robin_set_impl::_fill_slot(seq, arr) with the probe sequence at step i
_fill_slot(a, h, hash, i) ==
    _fill_slot_at(a, h, hash, i,
                  Offset(hash, i, Capacity(a)) + 1,
                  Offset(hash, i + 1, Capacity(a)) + 1)

\* _try_erase_from, the key was found: _fill_slot returned f
_try_erase_from_found(f) == [arr |-> f.arr, heap |-> f.heap, ret |-> TRUE]

\* _try_erase_from that forgets delete arr[seq.offset()]
_try_erase_from_no_delete(a, h, key, i, off) ==
    _try_erase_from_found(_fill_slot(a, h, HashOf(key), i))

\* _try_erase_from, the key is at slot off: delete arr[seq.offset()];
\* _fill_slot(seq, arr); return true
_try_erase_from_hit(a, h, key, i, off) ==
    _try_erase_from_found(_fill_slot(a, Delete(h, a[off]), HashOf(key), i))

RECURSIVE _try_erase_from_loop(_, _, _, _, _)
\* one pass of the scan of _try_erase_from at slot off
_try_erase_from_at(t, a, h, key, i, off) ==
    IF a[off] = nullptr THEN [arr |-> a, heap |-> h, ret |-> FALSE]
    ELSE IF h[a[off]].value = key THEN _try_erase_from_hit(a, h, key, i, off)
    ELSE _try_erase_from_loop(t - 1, a, h, key, i + 1)

\* the scan of _try_erase_from with t steps left
_try_erase_from_loop(t, a, h, key, i) ==
    IF t = 0
        THEN [arr |-> a, heap |-> h, ret |-> FALSE]
        ELSE _try_erase_from_at(t, a, h, key, i, Offset(HashOf(key), i, Capacity(a)) + 1)

\* robin_set_impl::_try_erase_from(distance_type max_probes,
\*                                 array_type_reference arr, const key_type& key)
_try_erase_from(mp, a, h, key) == _try_erase_from_loop(mp + 1, a, h, key, 0)

RECURSIVE ind_contained_in_loop(_, _, _, _, _)
\* one pass of the scan of robin_set_impl::_contained_in at slot off
ind_contained_in_at(t, a, h, key, i, off) ==
    IF a[off] = nullptr THEN FALSE
    ELSE IF ind_compare_hash(SeqHash(key), h, a[off]) /\ h[a[off]].value = key THEN TRUE
    ELSE ind_contained_in_loop(t - 1, a, h, key, i + 1)

\* the scan of robin_set_impl::_contained_in with t steps left
ind_contained_in_loop(t, a, h, key, i) ==
    IF t = 0
        THEN FALSE
        ELSE ind_contained_in_at(t, a, h, key, i, Offset(HashOf(key), i, Capacity(a)) + 1)

\* robin_set_impl::_contained_in(max_probes, arr, key)
ind_contained_in(mp, a, h, key) == ind_contained_in_loop(mp + 1, a, h, key, 0)

\* the object of the indirect variant and the heap its nodes live on
ThisIndirect == [arr |-> _arr, size |-> _size, max_probes |-> _max_probes, heap |-> heap]

RECURSIVE ind_grow_table_loop(_, _, _, _, _)
\* robin_set_impl::_grow_table, after _insert_into(new_max_probes, new_arr,
\* ptr) returned r for element i of the old buffer
ind_grow_table_moved(old, i, r) ==
    IF r.hung
        THEN [arr |-> r.arr, heap |-> r.heap, max_probes |-> r.max_probes, hung |-> TRUE]
        ELSE ind_grow_table_loop(old, i + 1, r.arr, r.heap, r.max_probes)

\* the range-for of robin_set_impl::_grow_table over the old buffer, at
\* element i: ptr->probes = 0; _insert_into(new_max_probes, new_arr, ptr)
ind_grow_table_loop(old, i, new_arr, h, new_max_probes) ==
    IF i > Len(old)
        THEN [arr |-> new_arr, heap |-> h, max_probes |-> new_max_probes, hung |-> FALSE]
    ELSE IF old[i] # nullptr
        THEN ind_grow_table_moved(old, i,
                 ind_insert_into_node(new_max_probes, new_arr,
                                      [h EXCEPT ![old[i]].probes = 0], old[i]))
    ELSE ind_grow_table_loop(old, i + 1, new_arr, h, new_max_probes)

\* robin_set_impl::_grow_table: _arr = std::move(new_arr);
\* _max_probes = new_max_probes
ind_grow_table_swap(t, r) ==
    [arr |-> r.arr, size |-> t.size, max_probes |-> r.max_probes, heap |-> r.heap,
     hung |-> r.hung, bad_alloc |-> FALSE]

\* the table as a call leaves it when it did nothing to it
ind_untouched(t, threw) ==
    [arr |-> t.arr, size |-> t.size, max_probes |-> t.max_probes, heap |-> t.heap,
     hung |-> FALSE, bad_alloc |-> threw]

\* robin_set_impl::_grow_table(); ok tells whether the allocation of new_arr
\* succeeds
ind_grow_table(t, ok) ==
    IF ~ok
        THEN ind_untouched(t, TRUE)
        ELSE ind_grow_table_swap(t,
                 ind_grow_table_loop(t.arr, 1, NewPtrBuffer(NextCapacity(Capacity(t.arr))),
                                     t.heap, 0))

\* robin_set_impl::insert, after _insert_into(_max_probes, _arr, key)
\* returned r on the (possibly grown) table g
ind_insert_finish(g, r) ==
    [arr |-> r.arr,
     size |-> IF r.ret THEN g.size + 1 ELSE g.size,
     max_probes |-> r.max_probes,
     heap |-> r.heap,
     ret |-> r.ret, hung |-> r.hung, bad_alloc |-> r.bad_alloc]

\* robin_set_impl::insert, after the growth check left the table g
ind_insert_grown(g, key, ok) ==
    IF g.hung \/ g.bad_alloc
        THEN [arr |-> g.arr, size |-> g.size, max_probes |-> g.max_probes,
              heap |-> g.heap, ret |-> FALSE, hung |-> g.hung, bad_alloc |-> g.bad_alloc]
        ELSE ind_insert_finish(g, ind_insert_into_key(g.max_probes, g.arr, g.heap, key, ok))

\* robin_set_impl::insert(const key_type& key) when the first budget
\* allocations of the call succeed and the next one throws std::bad_alloc
ind_insert(t, key, budget) ==
    IF 4 * t.size > 3 * Capacity(t.arr)
        THEN ind_insert_grown(ind_grow_table(t, budget >= 1), key, budget >= 2)
        ELSE ind_insert_grown(ind_untouched(t, FALSE), key, budget >= 1)

\* robin_set_impl::erase, after _try_erase_from returned r
ind_erase_finish(t, r) ==
    [arr |-> r.arr,
     size |-> IF r.ret THEN t.size - 1 ELSE t.size,
     max_probes |-> t.max_probes,
     heap |-> r.heap,
     ret |-> r.ret]

\* robin_set_impl::erase(const key_type& key)
ind_erase(t, key) == ind_erase_finish(t, _try_erase_from(t.max_probes, t.arr, t.heap, key))

\* robin_set_impl::contains(const key_type& key)
ind_contains(t, key) == ind_contained_in(t.max_probes, t.arr, t.heap, key)

RECURSIVE ind_clear_loop(_, _, _)
\* the range-for of robin_set_impl::clear at element i:
\* if (ptr) { delete ptr; ptr = nullptr; }
ind_clear_loop(a, h, i) ==
    IF i > Len(a)
        THEN [arr |-> a, heap |-> h]
    ELSE IF a[i] # nullptr
        THEN ind_clear_loop([a EXCEPT ![i] = nullptr], Delete(h, a[i]), i + 1)
    ELSE ind_clear_loop(a, h, i + 1)

\* robin_set_impl::clear, after the loop left r
ind_clear_finish(r) == [arr |-> r.arr, size |-> 0, max_probes |-> 0, heap |-> r.heap]

\* robin_set_impl::count(const key_type& key)
ind_count(t, key) == IF ind_contained_in(t.max_probes, t.arr, t.heap, key) THEN 1 ELSE 0

\* robin_set_impl::clear()
ind_clear(t) == ind_clear_finish(ind_clear_loop(t.arr, t.heap, 1))

\* ------------------------------------------------------------------ actions
\* the default constructor: no size hint, no range to insert
DefaultCtor == [form |-> "default", size_hint |-> 0, range |-> <<>>, first |-> 1]

\* no second set runs alongside
NoPeer == [arr |-> <<>>, size |-> 0, max_probes |-> 0, ret |-> FALSE, failed |-> FALSE]

\* no node is looked at on its own
NoSlot == [node |-> <<>>, op |-> "none", was_alive |-> FALSE, made |-> 0, unmade |-> 0]

\* no _grow_table is running
NotGrowing == [pc |-> "idle", key |-> NoKey, i |-> 0, new_arr |-> <<>>,
               new_max_probes |-> 0, before |-> <<>>]

\* inline_robin_set_impl(): capacity 8, no entry
Init ==
    /\ StoreHash = FALSE
    /\ dist_modulus = Uint16Modulus
    /\ _load = 0
    /\ _arr = NewBuffer(DefaultCapacity)
    /\ _size = 0
    /\ _max_probes = 0
    /\ hsel \in HashSelectors
    /\ last = [op |-> "new", ret |-> FALSE]
    /\ given = {}
    /\ heap = NewHeap
    /\ ctor = DefaultCtor
    /\ growing = NotGrowing
    /\ slot = NoSlot
    /\ peer = NoPeer

\* a call that never returned leaves nothing to run afterwards
Running == last.op # "hung"

\* the state after a call that left the object as r
Becomes(r) ==
    /\ _arr' = r.arr
    /\ _size' = r.size
    /\ _max_probes' = r.max_probes

InsertDone(k, r) ==
    /\ Becomes(r)
    /\ last' = [op |-> IF r.hung THEN "hung"
                       ELSE IF r.threw THEN "threw" ELSE "insert",
                ret |-> r.ret]
    /\ given' = given \cup {k}
    /\ UNCHANGED <<hsel, heap, ctor, growing, slot, StoreHash, dist_modulus, _load, peer>>

Insert(k) ==
    /\ Running
    /\ InsertDone(k, insert(This, k))

EraseDone(k, r) ==
    /\ Becomes(r)
    /\ last' = [op |-> "erase", ret |-> r.ret]
    /\ given' = given \ {k}
    /\ UNCHANGED <<hsel, heap, ctor, growing, slot, StoreHash, dist_modulus, _load, peer>>

Erase(k) ==
    /\ Running
    /\ EraseDone(k, erase(This, k))

Contains(k) ==
    /\ Running
    /\ last' = [op |-> "contains", ret |-> contains(This, k)]
    /\ UNCHANGED <<_arr, _size, _max_probes, hsel, given, heap, ctor, growing,
                   slot, StoreHash, dist_modulus, _load, peer>>

Count(k) ==
    /\ Running
    /\ last' = [op |-> "count", ret |-> count(This, k)]
    /\ UNCHANGED <<_arr, _size, _max_probes, hsel, given, heap, ctor, growing,
                   slot, StoreHash, dist_modulus, _load, peer>>

Clear ==
    /\ Running
    /\ Becomes(clear(This))
    /\ last' = [op |-> "clear", ret |-> FALSE]
    /\ given' = {}
    /\ UNCHANGED <<hsel, heap, ctor, growing, slot, StoreHash, dist_modulus, _load, peer>>

Next ==
    \/ \E k \in Keys : Insert(k)
    \/ \E k \in Keys : Erase(k)
    \/ \E k \in Keys : Contains(k)
    \/ \E k \in Keys : Count(k)
    \/ Clear

Spec == Init /\ [][Next]_vars

\* the growth scenario of the tests (stress_simple, no_stress_simple): a new
\* set into which the caller inserts the keys of StressKeys, each once, taking
\* the smallest or the largest key not inserted yet
StressInsert(k) ==
    /\ k \in StressKeys \ given
    /\ \/ \A j \in StressKeys \ given : k <= j
       \/ \A j \in StressKeys \ given : k >= j
    /\ Insert(k)

NextStress == \E k \in StressKeys : StressInsert(k)

SpecStress == Init /\ [][NextStress]_vars

\* ---------------------------------------------- actions, indirect variant
\* robin_set_impl(): _arr(8, nullptr), nothing on the heap
InitIndirect ==
    /\ StoreHash = FALSE
    /\ dist_modulus = Uint16Modulus
    /\ _load = 0
    /\ _arr = NewPtrBuffer(DefaultCapacity)
    /\ _size = 0
    /\ _max_probes = 0
    /\ heap = NewHeap
    /\ hsel \in HashSelectors
    /\ last = [op |-> "new", ret |-> FALSE]
    /\ given = {}
    /\ ctor = DefaultCtor
    /\ growing = NotGrowing
    /\ slot = NoSlot
    /\ peer = NoPeer

\* the state after a call that left the object and the heap as r
BecomesIndirect(r) ==
    /\ Becomes(r)
    /\ heap' = r.heap

InsertIndirectDone(k, r) ==
    /\ BecomesIndirect(r)
    /\ last' = [op |-> IF r.hung THEN "hung"
                       ELSE IF r.bad_alloc THEN "bad_alloc" ELSE "insert",
                ret |-> r.ret]
    /\ given' = IF r.bad_alloc THEN given ELSE given \cup {k}
    /\ UNCHANGED <<hsel, growing, slot, StoreHash, dist_modulus, _load, peer>>

\* insert(k) of a key the caller has inserted before or of the smallest key
\* it has not; the first budget allocations of the call succeed
InsertIndirect(k, budget) ==
    /\ Running
    /\ k \in given \/ \A j \in Keys \ given : k <= j
    /\ InsertIndirectDone(k, ind_insert(ThisIndirect, k, budget))
    /\ UNCHANGED ctor

EraseIndirectDone(k, r) ==
    /\ BecomesIndirect(r)
    /\ last' = [op |-> "erase", ret |-> r.ret]
    /\ given' = given \ {k}
    /\ UNCHANGED <<hsel, ctor, growing, slot, StoreHash, dist_modulus, _load, peer>>

EraseIndirect(k) ==
    /\ Running
    /\ EraseIndirectDone(k, ind_erase(ThisIndirect, k))

ClearIndirect ==
    /\ Running
    /\ BecomesIndirect(ind_clear(ThisIndirect))
    /\ last' = [op |-> "clear", ret |-> FALSE]
    /\ given' = {}
    /\ UNCHANGED <<hsel, ctor, growing, slot, StoreHash, dist_modulus, _load, peer>>

NextIndirect ==
    \/ \E k \in Keys : \E budget \in AllocBudgets : InsertIndirect(k, budget)
    \/ \E k \in Keys : EraseIndirect(k)
    \/ ClearIndirect

SpecIndirect == InitIndirect /\ [][NextIndirect]_vars

\* ------------------------------------------------ actions, constructors
\* the constructors of robin_set_impl: (), (size_hint), (first, last,
\* size_hint) and (initializer_list, size_hint)
Forms == {"default", "hint", "range", "list"}

Hints == 0 .. MaxHint

\* the size hints the size-hint constructor is called with on its own
LoneHints == 0 .. (4 * MaxHint)

\* the ranges and literal lists the constructors are called with: runs of
\* keys a, a + b, a + 2b, ... (b = 0: one key over and over)
Ranges ==
    {[i \in 1 .. n |-> (a + b * i) % NumKeys] :
        n \in 0 .. MaxRange, a \in Keys, b \in {0, 1, 3}}

\* mem-initializers that ignore the size hint of the size-hint constructor
CtorCapacity_ignores_hint(form, size_hint) ==
    IF form = "list" THEN StartCapacity(StartCapacity(size_hint))
    ELSE IF form = "range" THEN StartCapacity(size_hint)
    ELSE DefaultCapacity

\* the capacity the mem-initializer of each form gives _arr; the literal list
\* form delegates to the range form with growth_policy{}.start(size_hint) as
\* its size_hint
CtorCapacity(form, size_hint) ==
    IF form = "default" THEN DefaultCapacity
    ELSE IF form = "list" THEN StartCapacity(StartCapacity(size_hint))
    ELSE StartCapacity(size_hint)

\* the state after the mem-initializers of the constructor, before its body
InitCtor ==
    /\ StoreHash = FALSE
    /\ dist_modulus = Uint16Modulus
    /\ _load = 0
    /\ ctor \in {[form |-> f, size_hint |-> h, range |-> r, first |-> 1] :
                    f \in Forms, h \in LoneHints, r \in Ranges}
    /\ ctor.form # "hint" => ctor.size_hint \in Hints
    /\ ctor.form \in {"default", "hint"} => ctor.range = <<>>
    /\ ctor.form = "default" => ctor.size_hint = 0
    /\ _arr = NewPtrBuffer(CtorCapacity(ctor.form, ctor.size_hint))
    /\ _size = 0
    /\ _max_probes = 0
    /\ heap = NewHeap
    /\ hsel \in HashSelectors
    /\ last = [op |-> "new", ret |-> FALSE]
    /\ given = {}
    /\ growing = NotGrowing
    /\ slot = NoSlot
    /\ peer = NoPeer

\* the constructor has run to its end
Constructed == ctor.first > Len(ctor.range)

\* one pass of for (; first != last; ++first) insert(*first)
CtorInsert ==
    /\ ~Constructed
    /\ Running
    /\ InsertIndirectDone(ctor.range[ctor.first],
                          ind_insert(ThisIndirect, ctor.range[ctor.first], 2))
    /\ ctor' = [ctor EXCEPT !.first = ctor.first + 1]

NextCtor == CtorInsert

SpecCtor == InitCtor /\ [][NextCtor]_vars

\* ------------------------------------------- actions, _grow_table in steps
\* a pass of _grow_table that copies the node and leaves the old slot alone
_grow_table_pass_copies(old, f, r) ==
    [old |-> old,
     frame |-> [f EXCEPT !.i = f.i + 1,
                         !.new_arr = IF old[f.i].alive THEN r.arr ELSE f.new_arr,
                         !.new_max_probes = IF old[f.i].alive THEN r.max_probes
                                            ELSE f.new_max_probes]]

\* one pass of for (auto& ptr : _arr) in _grow_table, at element f.i of the
\* buffer old: an alive node has its probes reset and is moved into new_arr
_grow_table_pass(old, f, r) ==
    [old |-> IF old[f.i].alive THEN [old EXCEPT ![f.i] = destroy(old[f.i])] ELSE old,
     frame |-> [f EXCEPT !.i = f.i + 1,
                         !.new_arr = IF old[f.i].alive THEN r.arr ELSE f.new_arr,
                         !.new_max_probes = IF old[f.i].alive THEN r.max_probes
                                            ELSE f.new_max_probes]]

\* an insert without growth runs in one step
GrowInsert(k) ==
    /\ Running
    /\ growing.pc = "idle"
    /\ ~_should_grow(This)
    /\ InsertDone(k, insert(This, k))

\* insert(k) finds _should_grow() true and enters _grow_table:
\* new_max_probes = 0 and array_type new_arr(new_size)
GrowEnter(k) ==
    /\ Running
    /\ growing.pc = "idle"
    /\ _should_grow(This)
    /\ growing' = [pc |-> "loop", key |-> k, i |-> 1,
                   new_arr |-> NewBuffer(NextCapacity(Capacity(_arr))),
                   new_max_probes |-> 0, before |-> This]
    /\ UNCHANGED <<_arr, _size, _max_probes, hsel, last, given, heap, ctor, slot,
                   StoreHash, dist_modulus, _load, peer>>

\* the state after one pass of the loop left the old buffer and the frame as p
GrowPassDone(p) ==
    /\ _arr' = p.old
    /\ growing' = p.frame
    /\ UNCHANGED <<_size, _max_probes, hsel, last, given, heap, ctor, slot,
                   StoreHash, dist_modulus, _load, peer>>

GrowPass ==
    /\ growing.pc = "loop"
    /\ growing.i <= Len(_arr)
    /\ GrowPassDone(_grow_table_pass(_arr, growing,
           _insert_into_node(growing.new_max_probes, growing.new_arr,
                             [_arr[growing.i] EXCEPT !.probes = 0])))

\* _arr = std::move(new_arr); _max_probes = new_max_probes;
GrowSwap ==
    /\ growing.pc = "loop"
    /\ growing.i > Len(_arr)
    /\ _arr' = growing.new_arr
    /\ _max_probes' = growing.new_max_probes
    /\ growing' = [growing EXCEPT !.pc = "grown", !.new_arr = <<>>]
    /\ UNCHANGED <<_size, hsel, last, given, heap, ctor, slot, StoreHash, dist_modulus, _load, peer>>

\* back in insert: _insert_into(_max_probes, _arr, key) and the return
GrowReturnDone(k, r) ==
    /\ Becomes(r)
    /\ last' = [op |-> IF r.hung THEN "hung"
                       ELSE IF r.threw THEN "threw" ELSE "insert",
                ret |-> r.ret]
    /\ given' = given \cup {k}
    /\ growing' = NotGrowing
    /\ UNCHANGED <<hsel, heap, ctor, slot, StoreHash, dist_modulus, _load, peer>>

GrowReturn ==
    /\ growing.pc = "grown"
    /\ GrowReturnDone(growing.key,
                      insert_grown([arr |-> _arr, size |-> _size,
                                    max_probes |-> _max_probes,
                                    hung |-> FALSE, threw |-> FALSE],
                                   growing.key))

NextGrow ==
    \/ \E k \in Keys : GrowInsert(k)
    \/ \E k \in Keys : GrowEnter(k)
    \/ GrowPass
    \/ GrowSwap
    \/ GrowReturn

SpecGrow == Init /\ [][NextGrow]_vars

\* ------------------------------- actions, insertion into a fixed capacity
\* a new, empty buffer: the one of a new set, or the new_arr of its first
\* growth
InitOrder ==
    /\ StoreHash = FALSE
    /\ dist_modulus = Uint16Modulus
    /\ _load = 0
    /\ _arr \in {NewBuffer(DefaultCapacity), NewBuffer(NextCapacity(DefaultCapacity))}
    /\ _size = 0
    /\ _max_probes = 0
    /\ hsel \in HashSelectors
    /\ last = [op |-> "new", ret |-> FALSE]
    /\ given = {}
    /\ heap = NewHeap
    /\ ctor = DefaultCtor
    /\ growing = NotGrowing
    /\ slot = NoSlot
    /\ peer = NoPeer

\* the state after _insert_into left the buffer and the scan bound as r
OrderInsertDone(k, r) ==
    /\ _arr' = r.arr
    /\ _max_probes' = r.max_probes
    /\ _size' = _size + 1
    /\ last' = [op |-> "insert", ret |-> TRUE]
    /\ given' = given \cup {k}
    /\ UNCHANGED <<hsel, heap, ctor, growing, slot, StoreHash, dist_modulus, _load, peer>>

\* _insert_into(_max_probes, _arr, key) of a key not inserted yet, as insert
\* calls it
OrderInsertKey(k) ==
    /\ k \notin given
    /\ HasEmptySlot(_arr)
    /\ OrderInsertDone(k, _insert_into_key(_max_probes, _arr, k))

\* _insert_into(_max_probes, _arr, node) of a node with probes = 0 that holds
\* a key not inserted yet, as _grow_table calls it
OrderInsertNode(k) ==
    /\ k \notin given
    /\ HasEmptySlot(_arr)
    /\ OrderInsertDone(k, _insert_into_node(_max_probes, _arr,
                                            construct_node(DefaultNode, HashOf(k), 0, k)))

NextOrder ==
    \/ \E k \in Keys : OrderInsertKey(k)
    \/ \E k \in Keys : OrderInsertNode(k)

SpecOrder == InitOrder /\ [][NextOrder]_vars

\* ------------------------------------------------- actions, a single node
\* a default constructed node of either kind, StoreHash false or true
InitSlot ==
    /\ StoreHash \in BOOLEAN
    /\ dist_modulus = Uint16Modulus
    /\ _load = 0
    /\ slot = [node |-> DefaultNode, op |-> "new", was_alive |-> FALSE,
               made |-> 0, unmade |-> 0]
    /\ _arr = <<>>
    /\ _size = 0
    /\ _max_probes = 0
    /\ hsel \in HashSelectors
    /\ last = [op |-> "new", ret |-> FALSE]
    /\ given = {}
    /\ heap = NewHeap
    /\ ctor = DefaultCtor
    /\ growing = NotGrowing
    /\ peer = NoPeer

\* the probe counts a node is constructed with
SlotProbes == 0 .. MaxSlotProbes

\* the node of s after construct with the hash of the key
SlotConstructed(s, probe_count, key) ==
    construct_node(s.node, HashOf(key), probe_count, key)

\* the node of s after destroy
SlotDestroyed(s) == destroy(s.node)

\* node.construct(hash, probe_count, key), or construct(probe_count, key)
SlotConstruct(probe_count, key) ==
    /\ slot.made < MaxSlotValues \/ slot.node.alive
    /\ slot' = [slot EXCEPT !.node = SlotConstructed(slot, probe_count, key),
                            !.op = "construct",
                            !.was_alive = slot.node.alive,
                            !.made = slot.made + construct_at_calls(slot.node)]
    /\ UNCHANGED <<_arr, _size, _max_probes, hsel, last, given, heap, ctor,
                   growing, StoreHash, dist_modulus, _load, peer>>

\* node.destroy()
SlotDestroy ==
    /\ slot' = [slot EXCEPT !.node = SlotDestroyed(slot),
                            !.op = "destroy",
                            !.was_alive = slot.node.alive,
                            !.unmade = slot.unmade + destroy_at_calls(slot.node)]
    /\ UNCHANGED <<_arr, _size, _max_probes, hsel, last, given, heap, ctor,
                   growing, StoreHash, dist_modulus, _load, peer>>

NextSlot ==
    \/ \E probe_count \in SlotProbes : \E key \in Keys : SlotConstruct(probe_count, key)
    \/ SlotDestroy

SpecSlot == InitSlot /\ [][NextSlot]_vars

\* ----------------------------------------- actions, two variants in step
\* inline_robin_set_impl<T, Hash, Equal, StoreHash> in _arr, _size and
\* _max_probes, and robin_set_impl<T, Hash, Equal, StoreHash> in peer and
\* heap, both default constructed, with or without cached hashes
InitEquiv ==
    /\ StoreHash \in BOOLEAN
    /\ dist_modulus = Uint16Modulus
    /\ _load = 0
    /\ _arr = NewBuffer(DefaultCapacity)
    /\ _size = 0
    /\ _max_probes = 0
    /\ peer = [arr |-> NewPtrBuffer(DefaultCapacity), size |-> 0, max_probes |-> 0,
               ret |-> FALSE, failed |-> FALSE]
    /\ heap = NewHeap
    /\ hsel \in HashSelectors
    /\ last = [op |-> "new", ret |-> FALSE]
    /\ given = {}
    /\ ctor = DefaultCtor
    /\ growing = NotGrowing
    /\ slot = NoSlot

\* the indirect set: its three data members and the heap its nodes are on
ThisPeer == [arr |-> peer.arr, size |-> peer.size, max_probes |-> peer.max_probes,
             heap |-> heap]

\* the state after a call that left the indirect set and the heap as q and
\* returned q.ret
PeerBecomes(q, failed) ==
    /\ peer' = [arr |-> q.arr, size |-> q.size, max_probes |-> q.max_probes,
                ret |-> q.ret, failed |-> failed]
    /\ heap' = q.heap

\* the state after insert(k) left the inline set as r and the indirect set as q
EquivInsertDone(k, r, q) ==
    /\ Becomes(r)
    /\ last' = [op |-> IF r.hung THEN "hung"
                       ELSE IF r.threw THEN "threw" ELSE "insert",
                ret |-> r.ret]
    /\ PeerBecomes(q, q.hung \/ q.bad_alloc)
    /\ given' = given \cup {k}
    /\ UNCHANGED <<hsel, ctor, growing, slot, StoreHash, dist_modulus, _load>>

\* insert(k) on both sets, of a key the caller has inserted before or of the
\* smallest key it has not; no allocation fails
EquivInsert(k) ==
    /\ Running
    /\ k \in given \/ \A j \in Keys \ given : k <= j
    /\ EquivInsertDone(k, insert(This, k), ind_insert(ThisPeer, k, 2))

EquivEraseDone(k, r, q) ==
    /\ Becomes(r)
    /\ last' = [op |-> "erase", ret |-> r.ret]
    /\ PeerBecomes(q, FALSE)
    /\ given' = given \ {k}
    /\ UNCHANGED <<hsel, ctor, growing, slot, StoreHash, dist_modulus, _load>>

\* erase(k) on both sets
EquivErase(k) ==
    /\ Running
    /\ EquivEraseDone(k, erase(This, k), ind_erase(ThisPeer, k))

\* contains(k) on both sets
EquivContains(k) ==
    /\ Running
    /\ last' = [op |-> "contains", ret |-> contains(This, k)]
    /\ peer' = [peer EXCEPT !.ret = ind_contains(ThisPeer, k)]
    /\ UNCHANGED <<_arr, _size, _max_probes, hsel, given, heap, ctor, growing, slot,
                   StoreHash, dist_modulus, _load>>

\* count(k) on both sets
EquivCount(k) ==
    /\ Running
    /\ last' = [op |-> "count", ret |-> count(This, k)]
    /\ peer' = [peer EXCEPT !.ret = ind_count(ThisPeer, k)]
    /\ UNCHANGED <<_arr, _size, _max_probes, hsel, given, heap, ctor, growing, slot,
                   StoreHash, dist_modulus, _load>>

EquivClearDone(q) ==
    /\ peer' = [arr |-> q.arr, size |-> q.size, max_probes |-> q.max_probes,
                ret |-> FALSE, failed |-> FALSE]
    /\ heap' = q.heap

\* clear() on both sets
EquivClear ==
    /\ Running
    /\ Becomes(clear(This))
    /\ last' = [op |-> "clear", ret |-> FALSE]
    /\ EquivClearDone(ind_clear(ThisPeer))
    /\ given' = {}
    /\ UNCHANGED <<hsel, ctor, growing, slot, StoreHash, dist_modulus, _load>>

NextEquiv ==
    \/ \E k \in Keys : EquivInsert(k)
    \/ \E k \in Keys : EquivErase(k)
    \/ \E k \in Keys : EquivContains(k)
    \/ \E k \in Keys : EquivCount(k)
    \/ EquivClear

SpecEquiv == InitEquiv /\ [][NextEquiv]_vars

\* ------------------------------------------------- a narrow distance_type
\* The default set with distance_type scaled from 2^16 values down to
\* ScaledModulus, so that the keys at hand can fill a run longer than the
\* largest distance the type holds; the calls are those of Spec.

\* ----------------------------------------------------------- simple_set
\* vecl::simple_set<T, Hash, Equal> (include/vecl/simple_set.hpp): open
\* addressing with tombstones.  _arr holds simple_set_node* and the nodes
\* are blocks of the heap [state, hash, value, alive]; an erased node stays
\* in its slot, not alive.  The member functions work on a record
\* [arr, heap, size, load]; their names carry the prefix ss_.

\* probe_seq<1>::offset() after j calls of next(): the constructor sets
\* _offset{0} and _index{_hash % _size}; next() does _index += Width;
\* _offset = _hash + _index; _offset %= _size
ss_offset(hash, size, j) ==
    IF j = 0 THEN 0 ELSE (hash + (hash % size) + j) % size

\* the node at address p is alive
ss_alive(h, p) == h[p].alive

\* new simple_set_node(hash, key) at address p
ss_new_node(h, p, hash, key) ==
    [h EXCEPT ![p] = [state |-> "live", hash |-> hash, value |-> key, alive |-> TRUE]]

\* simple_set_node::construct(hash, key): if (!_alive) { _hash = hash;
\* construct_at }; _alive = true
ss_construct(h, p, hash, key) ==
    IF h[p].alive
        THEN h
        ELSE [h EXCEPT ![p].hash = hash, ![p].value = key, ![p].alive = TRUE]

\* simple_set_node::destroy(): the value is destroyed, _alive = false
ss_destroy(h, p) == [h EXCEPT ![p].value = NoKey, ![p].alive = FALSE]

\* _emplace_into_slot(hash, slot, key) on slot off: a new node into a slot
\* that is nullptr (returns true), the key into a node that is not alive
\* (returns false)
ss_emplace_into_slot(a, h, hash, off, key) ==
    IF a[off] = nullptr
        THEN [arr |-> [a EXCEPT ![off] = Alloc(h)],
              heap |-> ss_new_node(h, Alloc(h), hash, key),
              ret |-> TRUE]
    ELSE IF ~ss_alive(h, a[off])
        THEN [arr |-> a, heap |-> ss_construct(h, a[off], hash, key), ret |-> FALSE]
    ELSE [arr |-> a, heap |-> h, ret |-> FALSE]

RECURSIVE ss_insert_into_loop(_, _, _, _)
\* _insert_into(arr, key): while (arr[seq.offset()] != nullptr &&
\* arr[seq.offset()]->alive()) seq.next(); then _emplace_into_slot
ss_insert_into_at(a, h, key, j, off) ==
    IF a[off] # nullptr /\ ss_alive(h, a[off])
        THEN ss_insert_into_loop(a, h, key, j + 1)
        ELSE ss_emplace_into_slot(a, h, HashOf(key), off, key)

\* the loop of _insert_into with the probe sequence at step j
ss_insert_into_loop(a, h, key, j) ==
    ss_insert_into_at(a, h, key, j, ss_offset(HashOf(key), Capacity(a), j) + 1)

\* _insert_into(array_type_reference arr, const key_type& key)
ss_insert_into(a, h, key) == ss_insert_into_loop(a, h, key, 0)

RECURSIVE ss_try_insert_into_empty_loop(_, _, _, _)
\* the loop of _try_insert_into_empty: while (arr[seq.offset()] != nullptr)
\* seq.next(); arr[seq.offset()] = node
ss_try_insert_into_empty_at(a, h, node, j, off) ==
    IF a[off] # nullptr
        THEN ss_try_insert_into_empty_loop(a, h, node, j + 1)
        ELSE [arr |-> [a EXCEPT ![off] = node], ret |-> TRUE]

ss_try_insert_into_empty_loop(a, h, node, j) ==
    ss_try_insert_into_empty_at(a, h, node, j,
                                ss_offset(h[node].hash, Capacity(a), j) + 1)

\* _try_insert_into_empty(arr, node): a node that is nullptr or not alive is
\* passed over
ss_try_insert_into_empty(a, h, node) ==
    IF node = nullptr \/ ~ss_alive(h, node)
        THEN [arr |-> a, ret |-> FALSE]
        ELSE ss_try_insert_into_empty_loop(a, h, node, 0)

RECURSIVE ss_try_erase_from_loop(_, _, _, _)
\* one pass of the loop of _try_erase_from at slot off
ss_try_erase_from_at(a, h, key, j, off) ==
    IF a[off] = nullptr
        THEN [heap |-> h, ret |-> FALSE]
    ELSE IF ss_alive(h, a[off]) /\ h[a[off]].value = key
        THEN [heap |-> ss_destroy(h, a[off]), ret |-> TRUE]
    ELSE ss_try_erase_from_loop(a, h, key, j + 1)

ss_try_erase_from_loop(a, h, key, j) ==
    ss_try_erase_from_at(a, h, key, j, ss_offset(HashOf(key), Capacity(a), j) + 1)

\* _try_erase_from(array_type_reference arr, const key_type& key)
ss_try_erase_from(a, h, key) == ss_try_erase_from_loop(a, h, key, 0)

RECURSIVE ss_contained_in_loop(_, _, _, _)
\* the pass of _contained_in that takes a node that is not alive for the end
\* of the run
ss_contained_in_at_stops_at_dead(a, h, key, j, off) ==
    IF a[off] = nullptr \/ ~ss_alive(h, a[off]) THEN FALSE
    ELSE IF h[a[off]].value = key THEN TRUE
    ELSE ss_contained_in_loop(a, h, key, j + 1)

\* one pass of the loop of _contained_in at slot off
ss_contained_in_at(a, h, key, j, off) ==
    IF a[off] = nullptr THEN FALSE
    ELSE IF ss_alive(h, a[off]) /\ h[a[off]].value = key THEN TRUE
    ELSE ss_contained_in_loop(a, h, key, j + 1)

ss_contained_in_loop(a, h, key, j) ==
    ss_contained_in_at(a, h, key, j, ss_offset(HashOf(key), Capacity(a), j) + 1)

\* _contained_in(const_array_type_reference arr, const key_type& key)
ss_contained_in(a, h, key) == ss_contained_in_loop(a, h, key, 0)

\* the object: its data members and the heap its nodes are on
ThisSimple == [arr |-> _arr, heap |-> heap, size |-> _size, load |-> _load]

\* _should_grow(): load_factor() > 0.75f, load_factor() = 1.f * _load / capacity()
ss_should_grow(t) == 4 * t.load > 3 * Capacity(t.arr)

RECURSIVE ss_grow_table_loop(_, _, _, _)
\* _grow_table, after _try_insert_into_empty(new_arr, ptr) returned r
ss_grow_table_tried(t, i, load, r) ==
    ss_grow_table_loop(t, i + 1, r.arr, IF r.ret THEN load + 1 ELSE load)

\* the range-for of _grow_table over _arr, at element i
ss_grow_table_loop(t, i, new_arr, load) ==
    IF i > Len(t.arr)
        THEN [arr |-> new_arr, heap |-> t.heap, size |-> t.size, load |-> load]
        ELSE ss_grow_table_tried(t, i, load,
                                 ss_try_insert_into_empty(new_arr, t.heap, t.arr[i]))

\* _grow_table(): array_type new_arr(capacity() * 2, nullptr); _load = 0;
\* the loop; _arr = std::move(new_arr)
ss_grow_table(t) == ss_grow_table_loop(t, 1, NewPtrBuffer(Capacity(t.arr) * 2), 0)

\* insert, after _insert_into(_arr, key) returned r on the table g
ss_insert_finish(g, r) ==
    [arr |-> r.arr, heap |-> r.heap, size |-> g.size + 1,
     load |-> IF r.ret THEN g.load + 1 ELSE g.load,
     ret |-> TRUE]

\* insert, if (_should_grow()) _grow_table();
ss_insert_grow(t) == IF ss_should_grow(t) THEN ss_grow_table(t) ELSE t

\* insert(const key_type& key)
ss_insert(t, key) ==
    IF ss_contained_in(t.arr, t.heap, key)
        THEN [arr |-> t.arr, heap |-> t.heap, size |-> t.size, load |-> t.load,
              ret |-> FALSE]
        ELSE ss_insert_finish(ss_insert_grow(t),
                              ss_insert_into(ss_insert_grow(t).arr,
                                             ss_insert_grow(t).heap, key))

\* erase, after _try_erase_from(_arr, key) returned r
ss_erase_finish(t, r) ==
    [arr |-> t.arr, heap |-> r.heap,
     size |-> IF r.ret THEN t.size - 1 ELSE t.size,
     load |-> t.load, ret |-> r.ret]

\* erase(const key_type& key)
ss_erase(t, key) == ss_erase_finish(t, ss_try_erase_from(t.arr, t.heap, key))

\* contains(const key_type& key)
ss_contains(t, key) == ss_contained_in(t.arr, t.heap, key)

\* count(const key_type& key)
ss_count(t, key) == IF ss_contained_in(t.arr, t.heap, key) THEN 1 ELSE 0

RECURSIVE ss_clear_loop(_, _, _)
\* the range-for of clear over _arr, at element i: if (ptr) { delete ptr;
\* ptr = nullptr; }
ss_clear_loop(a, h, i) ==
    IF i > Len(a)
        THEN [arr |-> a, heap |-> h, size |-> 0, load |-> 0]
    ELSE IF a[i] # nullptr
        THEN ss_clear_loop([a EXCEPT ![i] = nullptr], Delete(h, a[i]), i + 1)
    ELSE ss_clear_loop(a, h, i + 1)

\* clear()
ss_clear(t) == ss_clear_loop(t.arr, t.heap, 1)

\* simple_set() : _arr(8, nullptr)
InitSimple ==
    /\ StoreHash = FALSE
    /\ dist_modulus = Uint16Modulus
    /\ _load = 0
    /\ _arr = NewPtrBuffer(DefaultCapacity)
    /\ _size = 0
    /\ _max_probes = 0
    /\ hsel \in HashSelectors
    /\ last = [op |-> "new", ret |-> FALSE]
    /\ given = {}
    /\ heap = NewHeap
    /\ ctor = DefaultCtor
    /\ growing = NotGrowing
    /\ slot = NoSlot
    /\ peer = NoPeer

\* the state after a call that left the object as r
BecomesSimple(r) ==
    /\ _arr' = r.arr
    /\ heap' = r.heap
    /\ _size' = r.size
    /\ _load' = r.load
    /\ UNCHANGED <<_max_probes, hsel, ctor, growing, slot, StoreHash, dist_modulus, peer>>

\* insert(k), for a key given before or the smallest key not yet given, while
\* operator new has a block to hand out
SimpleInsert(k) ==
    /\ Alloc(heap) # nullptr
    /\ k \in given \/ \A j \in Keys \ given : k <= j
    /\ BecomesSimple(ss_insert(ThisSimple, k))
    /\ last' = [op |-> "insert", ret |-> ss_insert(ThisSimple, k).ret]
    /\ given' = given \cup {k}

\* erase(k), for a key not given or the smallest or the largest key given
SimpleErase(k) ==
    /\ k \in given => (\A j \in given : k <= j) \/ (\A j \in given : j <= k)
    /\ BecomesSimple(ss_erase(ThisSimple, k))
    /\ last' = [op |-> "erase", ret |-> ss_erase(ThisSimple, k).ret]
    /\ given' = given \ {k}

SimpleContains(k) ==
    /\ last' = [op |-> "contains", ret |-> ss_contains(ThisSimple, k)]
    /\ UNCHANGED <<_arr, _size, _max_probes, hsel, given, heap, ctor, growing, slot,
                   StoreHash, dist_modulus, _load, peer>>

SimpleClear ==
    /\ BecomesSimple(ss_clear(ThisSimple))
    /\ last' = [op |-> "clear", ret |-> FALSE]
    /\ given' = {}

NextSimple ==
    \/ \E k \in Keys : SimpleInsert(k)
    \/ \E k \in Keys : SimpleErase(k)
    \/ \E k \in Keys : SimpleContains(k)
    \/ SimpleClear

SpecSimple == InitSimple /\ [][NextSimple]_vars

\* the Hash functor that maps every key to one hash value
ConstantHash == NumKeys

\* the Hash functors of the narrow set: the identity and the constant one
WrapSelectors == {0, ConstantHash}

InitWrap ==
    /\ StoreHash = FALSE
    /\ dist_modulus = ScaledModulus
    /\ _load = 0
    /\ _arr = NewBuffer(DefaultCapacity)
    /\ _size = 0
    /\ _max_probes = 0
    /\ hsel \in WrapSelectors
    /\ last = [op |-> "new", ret |-> FALSE]
    /\ given = {}
    /\ heap = NewHeap
    /\ ctor = DefaultCtor
    /\ growing = NotGrowing
    /\ slot = NoSlot
    /\ peer = NoPeer

\* how far slot i of buffer a lies behind the ideal slot of the entry in it
RealDistance(a, i) ==
    (i - 1 - Offset(hash_of(a[i]), 0, Capacity(a))) % Capacity(a)

\* some entry of the buffer has a distance that was reduced modulo
\* DistModulus; the scenario is followed up to the first such state
Wrapped(a) == \E i \in 1 .. Len(a) : a[i].alive /\ a[i].probes # RealDistance(a, i)

WrapInsert(k) ==
    /\ ~Wrapped(_arr)
    /\ Insert(k)

WrapErase(k) ==
    /\ ~Wrapped(_arr)
    /\ Erase(k)

WrapContains(k) ==
    /\ ~Wrapped(_arr)
    /\ Contains(k)

NextWrap ==
    \/ \E k \in Keys : WrapInsert(k)
    \/ \E k \in Keys : WrapErase(k)
    \/ \E k \in Keys : WrapContains(k)

SpecWrap == InitWrap /\ [][NextWrap]_vars

\* ------------------------------------------------------------- properties
\* the keys the set reports present
Members(t) == {k \in Keys : contains(t, k)}

\* the nodes of the buffer that are alive
Live(a) == {i \in 1 .. Len(a) : a[i].alive}

\* C1: in every reachable state, insert(k) of a key that is not present
\* returns true, contains(k) is true afterwards and len() is one larger; a
\* second insert(k) right after it returns false and leaves len() unchanged.
C1_InsertRoundTrip ==
    \A k \in Keys :
        ~contains(This, k) =>
            LET r  == insert(This, k)
                r2 == insert(r, k)
            IN  /\ ~r.hung /\ r.ret
                /\ contains(r, k)
                /\ len(r) = len(This) + 1
                /\ ~r2.hung /\ ~r2.ret
                /\ len(r2) = len(r)

\* an insert of a new key has just returned true in a table that already
\* holds displaced entries
C1_Witness ==
    /\ last.op = "insert" /\ last.ret = TRUE
    /\ _size >= 3 /\ _max_probes >= 2

\* C2: in every reachable state, erase(k) of a present key returns true,
\* contains(k) is false afterwards, len() is one smaller and every other key
\* that was present is still present.
C2_EraseCorrect ==
    \A k \in Keys :
        contains(This, k) =>
            LET r == erase(This, k)
            IN  /\ r.ret
                /\ ~contains(r, k)
                /\ len(r) = len(This) - 1
                /\ \A j \in Keys \ {k} : contains(This, j) => contains(r, j)

\* an erase has just returned true after a growth, with entries left behind
C2_Witness ==
    /\ last.op = "erase" /\ last.ret = TRUE
    /\ Capacity(_arr) > DefaultCapacity
    /\ _size >= 2

\* C3: in the growth scenario, once the table has grown every inserted key is
\* contained and len() is the number of keys inserted; after all of 0..19
\* len() = 20 and capacity() >= 32.
C3_GrowthPreservesMembership ==
    /\ Capacity(_arr) > DefaultCapacity =>
           /\ \A k \in given : contains(This, k)
           /\ len(This) = Cardinality(given)
    /\ given = StressKeys =>
           /\ len(This) = StressN
           /\ capacity(This) >= 32
           /\ \A k \in StressKeys : contains(This, k)

\* all keys of the scenario are in, the last insert returned true, and the
\* table has grown twice
C3_Witness ==
    /\ given = StressKeys
    /\ last.op = "insert" /\ last.ret = TRUE
    /\ Capacity(_arr) = NextCapacity(NextCapacity(DefaultCapacity))

\* the node that step i of the probe sequence of key k looks at
SlotAt(a, k, i) == a[Offset(HashOf(k), i, Capacity(a)) + 1]

\* the walk for key k ends at step i: the slot is empty or holds k
WalkStops(a, k, i) == ~SlotAt(a, k, i).alive \/ SlotAt(a, k, i).value = k

\* the number of entries the walk for key k passes before it ends
WalkLen(a, k) ==
    IF \E i \in 0 .. (Len(a) - 1) : WalkStops(a, k, i)
        THEN CHOOSE i \in 0 .. (Len(a) - 1) :
                 WalkStops(a, k, i) /\ \A j \in 0 .. (i - 1) : ~WalkStops(a, k, j)
        ELSE Len(a)

\* the keys stored in alive nodes
Stored(a) == {a[i].value : i \in Live(a)}

\* the largest probe distance of an alive node, 0 without one
MaxDist(a) ==
    IF Live(a) = {} THEN 0
    ELSE CHOOSE d \in {a[i].probes : i \in Live(a)} :
             \A i \in Live(a) : a[i].probes <= d

\* C4 (the claim as stated): after every insert that returned true,
\* len() / capacity() <= 0.75.
C4_LoadFactorBound ==
    (last.op = "insert" /\ last.ret = TRUE) => 4 * _size <= 3 * Capacity(_arr)

\* C5 (the claim as stated): for every key, the probe distances of the
\* entries its walk passes, from the ideal slot until the key is found or an
\* empty slot is hit, never increase from one slot to the next.
C5_NonIncreasing ==
    \A k \in Keys :
        \A i \in 0 .. (WalkLen(_arr, k) - 2) :
            SlotAt(_arr, k, i).probes >= SlotAt(_arr, k, i + 1).probes

\* C5 (amended): for every key the set holds, the walk from its ideal slot
\* finds the key, hits no empty slot before it, and the entry it passes at
\* step i has a probe distance of at least i.
C5_RobinHoodOrdering ==
    \A k \in given :
        /\ WalkLen(_arr, k) < Len(_arr)
        /\ SlotAt(_arr, k, WalkLen(_arr, k)).value = k
        /\ SlotAt(_arr, k, WalkLen(_arr, k)).probes = WalkLen(_arr, k)
        /\ \A i \in 0 .. (WalkLen(_arr, k) - 1) : SlotAt(_arr, k, i).probes >= i

\* an insert has just stolen a slot or probed past richer entries: some key
\* sits three slots from home behind an entry that is itself away from home
C5_Witness ==
    /\ last.op = "insert" /\ last.ret = TRUE
    /\ \E k \in given :
           /\ WalkLen(_arr, k) >= 3
           /\ SlotAt(_arr, k, 1).probes > SlotAt(_arr, k, 0).probes

\* C6 (the claim as stated): insert of a present key returns false and changes
\* neither len(), capacity(), max_probe_distance, the slots nor membership.
C6_DuplicateInsertNoOp ==
    \A k \in Keys :
        contains(This, k) =>
            /\ ~insert(This, k).ret
            /\ insert(This, k).size = _size
            /\ insert(This, k).arr = _arr
            /\ insert(This, k).max_probes = _max_probes
            /\ Members(insert(This, k)) = Members(This)

\* C6 (amended): insert of a present key returns false and changes neither
\* len() nor the membership of any key; it leaves the slots, capacity() and
\* max_probe_distance alone when it does not grow the table, and when it
\* does (the growth check comes before the probe) capacity() doubles.
C6_DuplicateInsert ==
    \A k \in Keys :
        contains(This, k) =>
            /\ ~insert(This, k).ret /\ ~insert(This, k).hung
            /\ insert(This, k).size = _size
            /\ Members(insert(This, k)) = Members(This)
            /\ ~_should_grow(This) =>
                   /\ insert(This, k).arr = _arr
                   /\ insert(This, k).max_probes = _max_probes
            /\ _should_grow(This) =>
                   capacity(insert(This, k)) = 2 * Capacity(_arr)

\* an insert has just returned false on a table that holds displaced entries
C6_Witness ==
    /\ last.op = "insert" /\ last.ret = FALSE
    /\ _size >= 3 /\ MaxDist(_arr) >= 1

\* C7: erase of a key that is not in the set returns false and leaves the
\* slots, len(), capacity(), max_probe_distance and membership as they were.
C7_EraseAbsent ==
    \A k \in Keys :
        (k \notin given \/ ~contains(This, k)) =>
            /\ ~erase(This, k).ret
            /\ erase(This, k).arr = _arr
            /\ erase(This, k).size = _size
            /\ erase(This, k).max_probes = _max_probes
            /\ Members(erase(This, k)) = Members(This)

\* an erase has just returned false on a table with entries away from home
C7_Witness ==
    /\ last.op = "erase" /\ last.ret = FALSE
    /\ _size >= 3 /\ MaxDist(_arr) >= 1

\* C8: every live entry's probe distance is <= max_probe_distance, and every
\* key the set holds is found by the contains scan and by the erase scan.
C8_ScanBoundSound ==
    /\ \A i \in Live(_arr) : _arr[i].probes <= _max_probes
    /\ \A k \in given \cup Stored(_arr) :
           /\ contains(This, k)
           /\ erase(This, k).ret

\* a lookup has just found a key in a table where some entry sits exactly
\* max_probes slots from home, so the last step of the scan is needed
C8_Witness ==
    /\ last.op = "contains" /\ last.ret = TRUE
    /\ _max_probes >= 2
    /\ \E i \in Live(_arr) : _arr[i].probes = _max_probes

\* max_probes is the largest probe distance of a live entry
Exact(t) == t.max_probes = MaxDist(t.arr)

\* C9 (the claim as stated): max_probe_distance equals the largest probe
\* distance any live entry currently has, 0 for an empty set.
C9_MaxProbesExact == Exact(This)

\* C9 (amended): max_probe_distance is never smaller than the largest probe
\* distance of a live entry; it is exact after clear, after every insert
\* that grew the table and after every insert into a table where it was
\* exact; an insert that does not grow raises it to the largest probe
\* distance if that is larger; erase never changes it, so after an erase it
\* may be larger than every live entry's probe distance.
C9_MaxProbesTracking ==
    [][ /\ MaxDist(_arr') <= _max_probes'
        /\ last'.op = "erase" => _max_probes' = _max_probes
        /\ last'.op = "clear" => _max_probes' = 0 /\ MaxDist(_arr') = 0
        /\ (last'.op = "insert" /\ Len(_arr') # Len(_arr)) => _max_probes' = MaxDist(_arr')
        /\ (last'.op = "insert" /\ Exact(This)) => _max_probes' = MaxDist(_arr')
        /\ (last'.op = "insert" /\ Len(_arr') = Len(_arr)) =>
               _max_probes' = Max(_max_probes, MaxDist(_arr'))
      ]_vars

\* an erase has just pulled entries back and left max_probes above every
\* live entry's probe distance
C9_Witness ==
    /\ last.op = "erase" /\ last.ret = TRUE
    /\ _size >= 1
    /\ _max_probes > MaxDist(_arr)

\* C10: clear() leaves every slot empty, len() and max_probe_distance 0, no
\* key contained, and capacity() as it was.
C10_Clear ==
    /\ \A i \in 1 .. Len(clear(This).arr) : clear(This).arr[i] = EmptyNode
    /\ clear(This).size = 0
    /\ clear(This).max_probes = 0
    /\ \A k \in Keys : ~contains(clear(This), k)
    /\ capacity(clear(This)) = Capacity(_arr)

\* clear has just run on a table that had grown
C10_Witness ==
    /\ last.op = "clear"
    /\ Capacity(_arr) > DefaultCapacity
    /\ _size = 0 /\ _max_probes = 0 /\ Live(_arr) = {}

\* C11: in every reachable state capacity() is a power of two that is >= 8
\* and len() <= capacity(), len() being the number of occupied slots.
C11_CapacityShape ==
    /\ capacity(This) \in PowersOfTwo
    /\ capacity(This) >= DefaultCapacity
    /\ len(This) <= capacity(This)
    /\ len(This) = Cardinality(Live(_arr))

\* the table has grown and holds as many entries as its first buffer had slots
C11_Witness ==
    /\ last.op = "insert" /\ last.ret = TRUE
    /\ Capacity(_arr) = NextCapacity(DefaultCapacity)
    /\ _size = DefaultCapacity

\* the keys the indirect set reports present
MembersIndirect(t) == {k \in Keys : ind_contains(t, k)}

\* the allocations insert(key) makes on the table t: the new buffer when the
\* table grows, the node when the key is new
AllocsNeeded(t, key) ==
    (IF 4 * t.size > 3 * Capacity(t.arr) THEN 1 ELSE 0)
        + (IF ind_contains(t, key) THEN 0 ELSE 1)

\* the call left the table t as it was
SameTable(r, t) ==
    /\ r.arr = t.arr /\ r.size = t.size
    /\ r.max_probes = t.max_probes /\ r.heap = t.heap

\* C12 (the claim as stated): an allocation failure during insert reaches the
\* caller and leaves capacity, len(), max_probe_distance, the slots and the
\* membership as they were before the call.
C12_AllocFailureAtomic ==
    \A k \in Keys : \A b \in AllocBudgets :
        ind_insert(ThisIndirect, k, b).bad_alloc =>
            SameTable(ind_insert(ThisIndirect, k, b), ThisIndirect)

\* C12 (amended): insert reports std::bad_alloc exactly when one of the
\* allocations it needs fails; len(), membership and the allocated nodes are
\* then as before the call.  When the failing allocation is the first of the
\* call the whole table is as before; when the buffer was allocated and the
\* node was not, the table is the grown one: capacity doubled, the entries
\* re-inserted, max_probe_distance recomputed.
C12_AllocFailure ==
    \A k \in Keys : \A b \in AllocBudgets :
        LET r == ind_insert(ThisIndirect, k, b)
        IN  /\ r.bad_alloc <=> b < AllocsNeeded(ThisIndirect, k)
            /\ r.bad_alloc =>
                   /\ ~r.ret /\ ~r.hung
                   /\ r.size = _size
                   /\ MembersIndirect(r) = MembersIndirect(ThisIndirect)
                   /\ Allocated(r.heap) = Allocated(heap)
                   /\ \A p \in Allocated(heap) : r.heap[p].value = heap[p].value
                   /\ b = 0 => SameTable(r, ThisIndirect)
                   /\ b = 1 =>
                          /\ Capacity(r.arr) = 2 * Capacity(_arr)
                          /\ SameTable(r, ind_grow_table(ThisIndirect, TRUE))

\* an insert has just failed with std::bad_alloc on a table that has grown
\* and holds displaced entries
C12_Witness ==
    /\ last.op = "bad_alloc"
    /\ Capacity(_arr) > DefaultCapacity
    /\ _size >= 3 /\ _max_probes >= 1

\* C13: a lookup miss is a normal result: contains, count and erase of a key
\* that is not in the set return false / 0, and no public operation calls
\* get() on a slot that is not alive, so std::bad_optional_access never
\* leaves insert (with or without growth), the only operation that calls
\* get() outside the else-branch of an alive() test.
C13_MissIsNormal ==
    /\ last.op # "threw"
    /\ \A k \in Keys : ~insert(This, k).threw
    /\ \A k \in Keys \ given :
           /\ contains(This, k) = FALSE
           /\ count(This, k) = 0
           /\ erase(This, k).ret = FALSE
    /\ \A k \in Keys : \A i \in 0 .. (WalkLen(_arr, k) - 1) :
           get(SlotAt(_arr, k, i)) # BadOptionalAccess

\* a lookup of an absent key has just returned false after comparing with at
\* least one live entry on the way
C13_Witness ==
    /\ last.op = "contains" /\ last.ret = FALSE
    /\ _size >= 3 /\ _max_probes >= 1
    /\ \E k \in Keys \ given :
           /\ WalkLen(_arr, k) >= 2
           /\ ~contains(This, k)

\* C14: in every reachable state and for every key k, count(k) is 0 or 1 and
\* count(k) = 1 exactly when contains(k) is true.
C14_CountAgreesWithContains ==
    /\ \A k \in Keys :
           /\ count(This, k) \in {0, 1}
           /\ count(This, k) = 1 <=> contains(This, k)
    /\ last.op = "count" => last.ret \in {0, 1}
    /\ last.op = "contains" => last.ret \in BOOLEAN

\* count has just returned 1 on a table where the key it found sits as far
\* from home as any entry does
C14_Witness ==
    /\ last.op = "count" /\ last.ret = 1
    /\ _max_probes >= 2
    /\ \E k \in given :
           /\ WalkLen(_arr, k) = _max_probes
           /\ count(This, k) = 1

\* C15: capacity() changes only inside insert, when the table grows; erase,
\* clear, contains and count never change it, and it never decreases.
C15_CapacityFixedBetweenResizes ==
    [][ /\ Len(_arr') >= Len(_arr)
        /\ Len(_arr') # Len(_arr) =>
               /\ last'.op = "insert"
               /\ _should_grow(This)
               /\ Len(_arr') = NextCapacity(Len(_arr))
        /\ last'.op \in {"erase", "clear", "contains", "count"} => Len(_arr') = Len(_arr)
        /\ last'.op \in {"contains", "count"} => _arr' = _arr
      ]_vars

\* after a growth the set was emptied by erase or clear and is still as large
C15_Witness ==
    /\ last.op \in {"erase", "clear"}
    /\ Capacity(_arr) > DefaultCapacity
    /\ _size = 0

RECURSIVE InsertAll(_, _, _)
\* the table after insert(range[i]), insert(range[i + 1]), ... on the table t
InsertAll(t, range, i) ==
    IF i > Len(range)
        THEN t
        ELSE InsertAll(ind_insert(t, range[i], 2), range, i + 1)

\* new(size_hint): robin_set_impl(size_type size_hint)
NewWithHint(size_hint) ==
    [arr |-> NewPtrBuffer(StartCapacity(size_hint)), size |-> 0, max_probes |-> 0,
     heap |-> NewHeap]

\* C16 (the claim as stated): a set built by any constructor with size hint h
\* has the capacity(), len() and membership of new(h) followed by insert of
\* the same elements in the same order; the default constructor gives
\* capacity 8 and len() 0.
C16_ConstructionForms ==
    Constructed =>
        /\ ctor.form = "default" => (Capacity(_arr) = 8 /\ _size = 0)
        /\ ctor.form # "default" =>
               /\ Capacity(_arr) = Capacity(InsertAll(NewWithHint(ctor.size_hint), ctor.range, 1).arr)
               /\ _size = InsertAll(NewWithHint(ctor.size_hint), ctor.range, 1).size
               /\ MembersIndirect(ThisIndirect)
                      = MembersIndirect(InsertAll(NewWithHint(ctor.size_hint), ctor.range, 1))

\* the nodes the slots of the buffer a refer to
Referenced(a) == {a[i] : i \in {j \in 1 .. Len(a) : a[j] # nullptr}}

\* the heap h holds exactly the nodes the buffer a refers to, each in one
\* slot, and no block of it was freed twice
HeapMatches(a, h) ==
    /\ Allocated(h) = Referenced(a)
    /\ \A i, j \in 1 .. Len(a) : (a[i] # nullptr /\ a[i] = a[j]) => i = j
    /\ \A p \in Addrs : h[p].state # "double_freed"

\* C17: in the indirect variant, after any sequence of insert, erase, grow
\* and clear the nodes that are allocated and not freed are exactly the nodes
\* the occupied slots refer to, each referred to by one slot; a successful
\* erase frees exactly one node (an unsuccessful one none) and clear frees
\* all of them.
C17_DeterministicRelease ==
    /\ HeapMatches(_arr, heap)
    /\ _size = Cardinality(Allocated(heap))
    /\ \A k \in Keys :
           LET r == ind_erase(ThisIndirect, k)
           IN  /\ HeapMatches(r.arr, r.heap)
               /\ Allocated(r.heap) \subseteq Allocated(heap)
               /\ Cardinality(Allocated(r.heap))
                      = Cardinality(Allocated(heap)) - (IF r.ret THEN 1 ELSE 0)
    /\ Allocated(ind_clear(ThisIndirect).heap) = {}
    /\ HeapMatches(ind_clear(ThisIndirect).arr, ind_clear(ThisIndirect).heap)

\* an erase has just freed a node of a grown table and left a free block
\* below an allocated one
C17_Witness ==
    /\ last.op = "erase" /\ last.ret = TRUE
    /\ Capacity(_arr) > DefaultCapacity
    /\ \E p, q \in Addrs : p < q /\ heap[p].state = "free" /\ heap[q].state = "live"

\* C18 (the claim as stated): insert(k) grows the table exactly when
\* (len() + 1) / capacity() > 0.75 on entry; when it grows capacity() becomes
\* twice its previous value, otherwise insert leaves capacity() unchanged.
C18_GrowthTrigger ==
    \A k \in Keys :
        /\ 4 * (len(This) + 1) > 3 * capacity(This) =>
               capacity(insert(This, k)) = 2 * capacity(This)
        /\ 4 * (len(This) + 1) <= 3 * capacity(This) =>
               capacity(insert(This, k)) = capacity(This)

\* the slot j steps after slot s in probe order, with wrap-around
After(a, s, j) == ((s - 1 + j) % Len(a)) + 1

\* the slot that holds the key k of the set
SlotOf(a, k) == After(a, Offset(HashOf(k), 0, Capacity(a)) + 1, WalkLen(a, k))

\* the backward shift pulls the entry of this node one slot back
Shiftable(node) == node.alive /\ node.probes > 0

\* the length of the maximal run of shiftable slots right after slot s
RunLen(a, s) ==
    CHOOSE n \in 0 .. (Len(a) - 1) :
        /\ \A j \in 1 .. n : Shiftable(a[After(a, s, j)])
        /\ n = Len(a) - 1 \/ ~Shiftable(a[After(a, s, n + 1)])

\* the buffer b is the buffer a after the entry of slot s was erased and the
\* run of n slots after it was shifted back by one
ShiftedBack(a, b, s, n) ==
    /\ \A j \in 1 .. n :
           b[After(a, s, j - 1)] =
               [alive |-> TRUE,
                value |-> a[After(a, s, j)].value,
                probes |-> a[After(a, s, j)].probes - 1]
    /\ b[After(a, s, n)] = EmptyNode
    /\ \A i \in 1 .. Len(a) :
           (\A j \in 0 .. n : i # After(a, s, j)) => b[i] = a[i]
    /\ Len(b) = Len(a)

\* C19: after a successful erase(k) where k occupied slot s, with R the
\* maximal run of slots right after s (in probe order, with wrap-around) that
\* are occupied with probe distance > 0, every entry of R sits one slot
\* earlier with its probe distance decreased by 1, the last slot of R (s
\* itself when R is empty) is empty, and every other slot is unchanged.
C19_BackwardShift ==
    \A k \in Stored(_arr) :
        /\ erase(This, k).ret
        /\ _arr[SlotOf(_arr, k)].value = k
        /\ ShiftedBack(_arr, erase(This, k).arr, SlotOf(_arr, k),
                       RunLen(_arr, SlotOf(_arr, k)))

\* an erase has just pulled a run back: max_probes is one above the largest
\* probe distance left, and an erase with a run of two or more that wraps
\* around the end of the buffer is possible from here
C19_Witness ==
    /\ last.op = "erase" /\ last.ret = TRUE
    /\ _max_probes = MaxDist(_arr) + 1
    /\ \E k \in Stored(_arr) :
           /\ RunLen(_arr, SlotOf(_arr, k)) >= 2
           /\ SlotOf(_arr, k) + RunLen(_arr, SlotOf(_arr, k)) > Len(_arr)

\* the step at which the probe of the absent key k ends in the buffer a: the
\* first slot that is empty or whose entry has a smaller probe distance
StealStep(a, k) ==
    CHOOSE i \in 0 .. (Len(a) - 1) :
        /\ ~SlotAt(a, k, i).alive \/ i > SlotAt(a, k, i).probes
        /\ \A j \in 0 .. (i - 1) : SlotAt(a, k, j).alive /\ j <= SlotAt(a, k, j).probes

\* the slot of the buffer a that holds the value v
SlotOfValue(a, v) == CHOOSE i \in Live(a) : a[i].value = v

\* the slots in which the buffers a and b differ
Changed(a, b) == {i \in 1 .. Len(a) : a[i] # b[i]}

\* the buffer b is the buffer a after key k was put into slot s with probe
\* distance d and the chain of displaced entries moved forward into the
\* formerly empty slot e
Displaced(a, b, k, s, d, e) ==
    /\ b[s] = [alive |-> TRUE, value |-> k, probes |-> d]
    /\ Cardinality(Live(b)) = Cardinality(Live(a)) + 1
    /\ {i \in 1 .. Len(a) : ~a[i].alive /\ b[i].alive} = {e}
    /\ \A i \in Changed(a, b) : (i - s) % Len(a) <= (e - s) % Len(a)
    /\ \A i \in Live(a) :
           /\ a[i].value \in Stored(b)
           /\ b[SlotOfValue(b, a[i].value)].probes
                  = a[i].probes + ((SlotOfValue(b, a[i].value) - i) % Len(a))
           /\ SlotOfValue(b, a[i].value) # i =>
                  /\ (i - s) % Len(a) < (SlotOfValue(b, a[i].value) - s) % Len(a)
                  /\ b[i].alive /\ b[i].probes > a[i].probes

\* the one slot that is empty in a and occupied in b
FilledSlot(a, b) ==
    IF \E i \in 1 .. Len(a) : ~a[i].alive /\ b[i].alive
        THEN CHOOSE i \in 1 .. Len(a) : ~a[i].alive /\ b[i].alive
        ELSE 1

\* insert(k) of the new key k, whose probe ends at slot s with distance d:
\* g is the table after the growth check of insert, r what _insert_into(key)
\* makes of it
StealHolds(g, r, k, s, d) ==
    /\ r.ret /\ ~r.hung /\ ~r.threw
    /\ Displaced(g.arr, r.arr, k, s, d, FilledSlot(g.arr, r.arr))
    /\ insert(This, k).ret
    /\ insert(This, k).arr = r.arr
    /\ insert(This, k).size = _size + 1

\* insert(k) of the new key k, whose probe ends at step d in the table g
StealAt(g, k, d) ==
    StealHolds(g, _insert_into_key(g.max_probes, g.arr, k), k,
               After(g.arr, Offset(HashOf(k), 0, Capacity(g.arr)) + 1, d), d)

\* C20: when the probe of a new key reaches, with accumulated distance d, an
\* occupied slot whose entry has a smaller probe distance, the key is stored
\* in that slot with distance d and the displaced entry is re-inserted past
\* that slot, its distance increased by the number of slots it moves
\* forward (displacing in turn where it is the poorer); the chain ends at an
\* empty slot, insert returns true and one more slot is occupied.
C20_Stealing ==
    \A k \in Keys \ Stored(_arr) :
        StealAt(insert_grow(This), k, StealStep(insert_grow(This).arr, k))

\* an insert has just returned true and from here some new key steals a slot
\* whose displaced entry displaces another one in turn (three or more slots
\* change)
C20_Witness ==
    /\ last.op = "insert" /\ last.ret = TRUE
    /\ \E k \in Keys \ Stored(_arr) :
           /\ ~_should_grow(This)
           /\ SlotAt(_arr, k, StealStep(_arr, k)).alive
           /\ Cardinality(Changed(_arr, insert(This, k).arr)) >= 3

\* node i of buffer a sits where its key's probe sequence is after
\* a[i].probes steps
Truthful(a, i) == i - 1 = Offset(HashOf(a[i].value), a[i].probes, Capacity(a))

\* g is table t rebuilt: the same keys, once each, every one reached from its
\* ideal slot over alive nodes only, and max_probes the largest distance
Rebuilt(t, g) ==
    /\ ~g.hung /\ ~g.threw
    /\ g.size = t.size
    /\ Capacity(g.arr) = NextCapacity(Capacity(t.arr))
    /\ Stored(g.arr) = Stored(t.arr)
    /\ Cardinality(Live(g.arr)) = Cardinality(Live(t.arr))
    /\ \A i \in Live(g.arr) : Truthful(g.arr, i)
    /\ \A k \in Stored(t.arr) :
           /\ SlotAt(g.arr, k, WalkLen(g.arr, k)).alive
           /\ SlotAt(g.arr, k, WalkLen(g.arr, k)).probes = WalkLen(g.arr, k)
    /\ g.max_probes = MaxDist(g.arr)

\* C21: right after _grow_table every key that was alive is alive in the new
\* buffer, at the slot (hash + distance) & (new capacity - 1) with a distance
\* counted from zero against the new capacity, the new buffer has no other
\* entry, and _max_probes is the largest distance of an alive entry of the
\* new buffer.
C21_GrowRebuilds == Rebuilt(This, _grow_table(This))

\* the table is about to grow, holds an entry two or more slots from home,
\* and the rebuilt table has a smaller largest distance than _max_probes
C21_Witness ==
    /\ _should_grow(This)
    /\ MaxDist(_arr) >= 2
    /\ _grow_table(This).max_probes < _max_probes
    /\ _grow_table(This).max_probes >= 1

\* the keys of the alive nodes of buffer a in slots lo .. hi
StoredIn(a, lo, hi) == {a[j].value : j \in {j \in Live(a) : lo <= j /\ j <= hi}}

MovedInOrder(old, f, t) ==
    /\ Len(old) = Len(t.arr)
    /\ \A j \in 1 .. Len(old) :
           IF j < f.i THEN ~old[j].alive ELSE old[j] = t.arr[j]
    /\ Capacity(f.new_arr) = NextCapacity(Capacity(t.arr))
    /\ Stored(f.new_arr) = StoredIn(t.arr, 1, f.i - 1)
    /\ Cardinality(Live(f.new_arr)) + Cardinality(Live(old)) = t.size
    /\ \A j \in Live(f.new_arr) : Truthful(f.new_arr, j)
    /\ f.new_max_probes = MaxDist(f.new_arr)

RECURSIVE InAscendingOrder(_, _, _)
\* the buffer and scan bound r after _insert_into of the keys of the set
\* keys that are >= k, smallest first
InAscendingOrder(r, keys, k) ==
    IF k >= NumKeys THEN r
    ELSE IF k \in keys
        THEN InAscendingOrder(_insert_into_key(r.max_probes, r.arr, k), keys, k + 1)
    ELSE InAscendingOrder(r, keys, k + 1)

\* buffer a with scan bound mp has the alive slots, the probes in each and
\* the scan bound of r
SameShape(a, mp, r) ==
    /\ Len(a) = Len(r.arr)
    /\ Live(a) = Live(r.arr)
    /\ \A i \in Live(a) : a[i].probes = r.arr[i].probes
    /\ mp = r.max_probes

\* every key of keys is found by its walk over buffer a, and the entry the
\* walk passes at step i is at least i slots from its own ideal slot
RobinHood(a, keys) ==
    \A k \in keys :
        /\ WalkLen(a, k) < Len(a)
        /\ SlotAt(a, k, WalkLen(a, k)).value = k
        /\ SlotAt(a, k, WalkLen(a, k)).probes = WalkLen(a, k)
        /\ \A i \in 0 .. (WalkLen(a, k) - 1) : SlotAt(a, k, i).probes >= i

\* C23: whatever the order in which distinct keys were put into an empty
\* buffer of a fixed capacity, the buffer has the alive slots, the probe
\* distance in each alive slot and the _max_probes that inserting the same
\* keys smallest first gives (so any two orders agree), and it satisfies the
\* Robin Hood invariant.
C23_OrderIndependent ==
    /\ SameShape(_arr, _max_probes,
                 InAscendingOrder([arr |-> NewBuffer(Capacity(_arr)), max_probes |-> 0],
                                  given, 0))
    /\ RobinHood(_arr, given)

\* five or more keys went in, one ended three slots from home, and the keys
\* do not sit where smallest-first insertion puts them
C23_Witness ==
    /\ Cardinality(given) >= 5
    /\ _max_probes >= 3
    /\ \E i \in Live(_arr) :
           _arr[i].value # InAscendingOrder([arr |-> NewBuffer(Capacity(_arr)),
                                             max_probes |-> 0], given, 0).arr[i].value

\* key k is in buffer a within steps 0 .. m of its probe sequence, behind
\* alive nodes only
FoundWithin(a, k, m) ==
    \E i \in 0 .. m :
        /\ SlotAt(a, k, i).alive
        /\ SlotAt(a, k, i).value = k
        /\ \A j \in 0 .. (i - 1) : SlotAt(a, k, j).alive /\ SlotAt(a, k, j).value # k

\* the scans of _contained_in and _try_erase with bound m over buffer a agree
\* with FoundWithin for key k, and a miss of _try_erase leaves the buffer
ScanWithin(a, k, m) ==
    /\ _contained_in(m, a, k) = FoundWithin(a, k, m)
    /\ _try_erase(m, a, k).ret = FoundWithin(a, k, m)
    /\ ~FoundWithin(a, k, m) => _try_erase(m, a, k).arr = a

\* C24: contains(k) and erase(k) look at the slots of steps 0, 1, ... of k's
\* probe sequence from its ideal slot, at most _max_probes + 1 of them, stop
\* at the first empty slot, and return false with the table as it was when k
\* is not found within that bound; the same holds of the scans run with any
\* smaller bound.
C24_BoundedScan ==
    \A k \in Keys :
        /\ \A m \in 0 .. _max_probes : ScanWithin(_arr, k, m)
        /\ contains(This, k) = FoundWithin(_arr, k, _max_probes)
        /\ erase(This, k).ret = FoundWithin(_arr, k, _max_probes)
        /\ ~FoundWithin(_arr, k, _max_probes) =>
               /\ erase(This, k).arr = _arr
               /\ erase(This, k).size = _size
               /\ erase(This, k).max_probes = _max_probes

\* a lookup or erase has just missed, and the scan of some absent key passes
\* _max_probes + 1 alive nodes, so that only the bound ends it
C24_Witness ==
    /\ last.op \in {"contains", "erase"}
    /\ last.ret = FALSE
    /\ _max_probes >= 2
    /\ \E k \in Keys \ Stored(_arr) :
           \A i \in 0 .. _max_probes : SlotAt(_arr, k, i).alive

\* C25: in every reachable state every alive entry, stored at slot s with
\* probe distance d, satisfies s = (hash(key) + d) & (capacity - 1), and d is
\* below the capacity.
C25_ProbeDistanceTruthful ==
    \A i \in Live(_arr) :
        /\ Truthful(_arr, i)
        /\ _arr[i].probes < Capacity(_arr)

\* an insert or an erase has just moved entries: one entry sits two or more
\* slots from home and one has wrapped past the end of the buffer
C25_Witness ==
    /\ last.op \in {"insert", "erase"}
    /\ last.ret = TRUE
    /\ \E i \in Live(_arr) : _arr[i].probes >= 2
    /\ \E i \in Live(_arr) :
           BitAnd(HashOf(_arr[i].value), Capacity(_arr) - 1) + _arr[i].probes
               >= Capacity(_arr)

\* c is the smallest power of two that is >= 8 and > size_hint
SmallestFit(c, size_hint) ==
    \E n \in 3 .. 10 :
        /\ c = 2 ^ n
        /\ c > size_hint
        /\ n > 3 => 2 ^ (n - 1) <= size_hint

\* C26: the set the size-hint constructor builds has a capacity() equal to
\* the smallest power of two that is >= 8 and strictly greater than
\* size_hint, never 0, and no entry.
C26_NewSetCapacity ==
    ctor.form = "hint" =>
        /\ SmallestFit(Capacity(_arr), ctor.size_hint)
        /\ Capacity(_arr) >= DefaultCapacity
        /\ _size = 0
        /\ \A i \in 1 .. Len(_arr) : _arr[i] = nullptr

\* the size-hint constructor was given a hint that is itself a power of two
\* above the minimum: the capacity is the next one
C26_Witness ==
    /\ ctor.form = "hint"
    /\ ctor.size_hint = 16
    /\ Capacity(_arr) = 32

\* simple_buffer::operator[](i): VECL_ASSERT(i < size()) holds
IndexAsserted(a, i) == 0 <= i /\ i < Len(a)

\* the slot index of each of the first n + 2 steps of the probe sequence of
\* every key over buffer a is (hash + i) & (capacity - 1) and passes the
\* index assertion; a walk over a table of n entries (the scan of
\* _contained_in and _try_erase, the peek of the backward shift, the walk of
\* _insert_into to the first empty slot) takes no more steps than that
IndicesInRange(a, n) ==
    \A k \in Keys :
        \A i \in 0 .. (n + 1) :
            /\ Offset(HashOf(k), i, Capacity(a)) = BitAnd(HashOf(k) + i, Capacity(a) - 1)
            /\ IndexAsserted(a, Offset(HashOf(k), i, Capacity(a)))

\* C27: every slot index the probe sequence yields for insert, erase (the
\* peek one step ahead of the backward shift included), contains and the
\* re-insertion of _grow_table into its new buffer equals
\* (hash + i) & (capacity - 1) and lies in [0, capacity), so the index
\* assertion i < size() of the backing buffer holds.
C27_IndicesInRange ==
    /\ Capacity(_arr) >= 1
    /\ _size <= Capacity(_arr)
    /\ IndicesInRange(_arr, _size)
    /\ IndicesInRange(NewBuffer(NextCapacity(Capacity(_arr))), _size)

\* an erase has just pulled entries back in a table in which the probe
\* sequence has wrapped: the first slot holds an entry that is away from home
C27_Witness ==
    /\ last.op = "erase" /\ last.ret = TRUE
    /\ _arr[1].alive /\ _arr[1].probes >= 1
    /\ _arr[Len(_arr)].alive

\* node n of kind store_hash is alive and holds exactly the key, the probe
\* count and, if it caches one, the hash given
HoldsExactly(n, store_hash, hash, probe_count, key) ==
    /\ n.alive
    /\ n.value = key
    /\ n.probes = probe_count
    /\ store_hash => n.hash = hash

\* C28: construct on a node that is alive leaves its value, its probe
\* distance and its cached hash as they were and the node alive, and
\* constructs no value; construct on a node that is not alive makes it alive
\* with exactly the value, the distance and the hash given, and constructs one
\* value.
C28_ConstructOnce ==
    /\ \A probe_count \in SlotProbes : \A key \in Keys :
           IF slot.node.alive
               THEN SlotConstructed(slot, probe_count, key) = slot.node
               ELSE HoldsExactly(SlotConstructed(slot, probe_count, key),
                                 StoreHash, HashOf(key), probe_count, key)
    /\ construct_at_calls(slot.node) = IF slot.node.alive THEN 0 ELSE 1
    /\ slot.made - slot.unmade = IF slot.node.alive THEN 1 ELSE 0

\* construct has just been called on a node that was alive, after the node
\* had been destroyed and constructed again before
C28_Witness ==
    /\ slot.op = "construct"
    /\ slot.was_alive
    /\ slot.node.alive
    /\ slot.made >= 2

\* node n is not alive and its probe distance is 0
IsEmpty(n) == ~n.alive /\ n.probes = 0

\* C29: destroy on a node that is alive makes it empty with probe distance 0
\* and destroys its value; destroy on a node that is not alive (a second
\* destroy) leaves it as it is and destroys nothing, so that no value is
\* destroyed twice.
C29_DestroyIdempotent ==
    /\ IsEmpty(SlotDestroyed(slot))
    /\ ~slot.node.alive => SlotDestroyed(slot) = slot.node
    /\ destroy_at_calls(slot.node) = IF slot.node.alive THEN 1 ELSE 0
    /\ slot.unmade <= slot.made
    /\ slot.op = "destroy" => IsEmpty(slot.node)

\* destroy has just been called a second time on a node whose value, held
\* away from its ideal slot, a first destroy had destroyed
C29_Witness ==
    /\ slot.op = "destroy"
    /\ ~slot.was_alive
    /\ slot.made >= 1
    /\ slot.unmade = slot.made

\* slot i of the inline buffer a and of the indirect buffer b on heap h are
\* both empty, or both hold an entry with the same key and probe distance
SameSlot(a, b, h, i) ==
    IF a[i].alive
        THEN /\ b[i] # nullptr
             /\ h[b[i]].state = "live"
             /\ h[b[i]].value = a[i].value
             /\ h[b[i]].probes = a[i].probes
        ELSE b[i] = nullptr

\* every entry of either set that caches a hash caches Hash{}(its key), so
\* that the caching and the recomputing instantiation probe from the same slot
CacheIsHash(a, b, h) ==
    StoreHash =>
        \A i \in 1 .. Len(a) :
            a[i].alive => /\ a[i].hash = HashOf(a[i].value)
                          /\ hash_of(a[i]) = HashOf(get(a[i]))
                          /\ h[b[i]].hash = HashOf(h[b[i]].value)
                          /\ ind_compare_hash(SeqHash(a[i].value), h, b[i])

\* C30: given the same calls of insert, erase, contains, count and clear, the
\* indirect set and the inline set, with or without cached hashes, have
\* returned the same result from the last call and have the same len(), the
\* same capacity(), the same occupied slots and the same key and probe
\* distance in each; a cached hash is always the hash of the key it is cached
\* with.
C30_VariantsEquivalent ==
    /\ ~peer.failed
    /\ peer.ret = last.ret
    /\ peer.size = _size
    /\ Capacity(peer.arr) = Capacity(_arr)
    /\ \A i \in 1 .. Len(_arr) : SameSlot(_arr, peer.arr, heap, i)
    /\ \A k \in Keys : /\ ind_contains(ThisPeer, k) = contains(This, k)
                       /\ ind_count(ThisPeer, k) = count(This, k)
    /\ CacheIsHash(_arr, peer.arr, heap)

\* both sets cache hashes, have grown, and an erase has just pulled entries
\* back in both while an entry stays away from its ideal slot
C30_Witness ==
    /\ StoreHash
    /\ last.op = "erase" /\ last.ret = TRUE /\ peer.ret = TRUE
    /\ Capacity(_arr) > DefaultCapacity
    /\ _max_probes >= 1
    /\ \E i \in Live(_arr) : _arr[i].probes >= 1

\* C31: the probe-distance counter never wraps: for every hash function, the
\* one that maps all keys to one ideal slot included, and every number of
\* keys the table can hold, the distance stored with every live entry is its
\* real distance from its ideal slot, below the number of values of the
\* distance type, and so never reduced modulo that number.
C31_DistanceNeverWraps ==
    \A i \in Live(_arr) :
        /\ RealDistance(_arr, i) < DistModulus
        /\ _arr[i].probes = RealDistance(_arr, i)

\* the slot right before slot i, cyclically
Before(a, i) == After(a, i, Len(a) - 1)

\* the slots of steps 0 .. probes - 1 of the probe sequence of the entry in
\* slot i: the path from its ideal slot to it
PathTo(a, i) == {Offset(hash_of(a[i]), j, Capacity(a)) + 1 : j \in 0 .. (a[i].probes - 1)}

\* C32: in every reachable state, every live entry with probe distance d > 0
\* is immediately preceded (cyclically) by an occupied slot whose entry has
\* probe distance >= d - 1; hence every slot between an entry's ideal slot
\* and its current slot is occupied, and no empty slot lies on the path from
\* a present key's ideal slot to the key.
C32_ClusterInvariant ==
    \A i \in Live(_arr) :
        /\ _arr[i].probes > 0 =>
               /\ _arr[Before(_arr, i)].alive
               /\ _arr[Before(_arr, i)].probes >= _arr[i].probes - 1
        /\ \A j \in PathTo(_arr, i) : _arr[j].alive
        /\ i = Offset(hash_of(_arr[i]), _arr[i].probes, Capacity(_arr)) + 1

\* an erase has just pulled a run back and left an entry two or more slots
\* from home right behind an entry one slot nearer its own, after a gap
C32_Witness ==
    /\ last.op = "erase" /\ last.ret = TRUE
    /\ \E i \in Live(_arr) :
           /\ _arr[i].probes >= 2
           /\ _arr[Before(_arr, i)].probes = _arr[i].probes - 1
    /\ \E i \in 1 .. Len(_arr) : ~_arr[i].alive /\ _arr[After(_arr, i, 1)].alive

\* no two alive nodes of buffer a hold equal keys
Unique(a) == \A i, j \in Live(a) : a[i].value = a[j].value => i = j

\* C33: in every reachable state len() equals the number of occupied slots,
\* and no two occupied slots hold equal keys: an insert, with or without
\* stealing, never stores a key that is already present further along its
\* probe sequence.
C33_SizeAndUniqueness ==
    /\ len(This) = Cardinality(Live(_arr))
    /\ Unique(_arr)
    /\ \A k \in Stored(_arr) :
           /\ ~insert(This, k).ret
           /\ insert(This, k).size = _size
           /\ Unique(insert(This, k).arr)

\* an insert has just been turned down for a key that is stored, in a set
\* with an entry two or more slots from home and two neighbours at home
C33_Witness ==
    /\ last.op = "insert" /\ last.ret = FALSE
    /\ _size >= 3
    /\ \E i \in Live(_arr) : _arr[i].probes >= 2
    /\ \E i \in Live(_arr) : _arr[i].probes = 0 /\ _arr[After(_arr, i, 1)].probes = 0
                             /\ _arr[After(_arr, i, 1)].alive

\* C34: insert never loses a key: in every reachable state and for every key
\* k, after insert(k), with or without stealing, with or without growth,
\* whether it returns true or false, every key that was present before the
\* call is still present, and no key other than k has become present.
C34_InsertKeepsKeys ==
    \A k \in Keys :
        /\ Members(insert(This, k)) = Members(This) \cup {k}
        /\ Stored(insert(This, k).arr) = Stored(_arr) \cup {k}

\* an insert has just returned true and left an entry two or more slots from
\* home; the table is at its growth threshold, so that the insert of a key
\* that is missing grows it and re-inserts every entry
C34_Witness ==
    /\ last.op = "insert" /\ last.ret = TRUE
    /\ \E i \in Live(_arr) : _arr[i].probes >= 2
    /\ _should_grow(This)
    /\ \E k \in Keys \ Stored(_arr) :
           /\ insert(This, k).ret
           /\ Capacity(insert(This, k).arr) = NextCapacity(Capacity(_arr))

\* the backward shift that starts behind slot s of buffer a comes to a slot
\* it does not pull back before it has gone round the buffer
ShiftStops(a, s) == \E j \in 1 .. (Len(a) - 1) : ~Shiftable(a[After(a, s, j)])

\* C35: every operation terminates: in every reachable state at least one
\* slot is empty (len() < capacity()), so the probe loop of insert and its
\* chain of displacements reach an empty slot, the backward-shift loop of
\* erase stops, and the re-insertion of every live entry by grow completes.
C35_Terminates ==
    /\ len(This) < capacity(This)
    /\ HasEmptySlot(_arr)
    /\ last.op # "hung"
    /\ \A i \in Live(_arr) : ShiftStops(_arr, i)
    /\ \A k \in Keys :
           /\ ~_grow_table(This).hung
           /\ ~insert(This, k).hung
           /\ insert(This, k).size < Capacity(insert(This, k).arr)

\* an insert has just filled the table up to its last empty slot, with
\* entries wrapped round the end of the buffer
C35_Witness ==
    /\ last.op = "insert" /\ last.ret = TRUE
    /\ len(This) = capacity(This) - 1
    /\ _arr[1].alive /\ _arr[1].probes >= 1

\* the keys the simple_set reports present
MembersSimple(t) == {k \in Keys : ss_contains(t, k)}

\* the slots of buffer a that are not nullptr
NonNull(a) == {i \in 1 .. Len(a) : a[i] # nullptr}

\* C36: simple_set behaves as a mathematical set: after any sequence of
\* insert, erase and clear, growths and re-use of tombstoned slots included,
\* contains(k) is true exactly for the keys inserted and not since erased or
\* cleared, size() is their number, insert returns true exactly for absent
\* keys and erase exactly for present keys, and the load counter equals the
\* number of slots that are not nullptr.
C36_SimpleSetIsSet ==
    /\ MembersSimple(ThisSimple) = given
    /\ _size = Cardinality(given)
    /\ _load = Cardinality(NonNull(_arr))
    /\ MembersSimple(ss_clear(ThisSimple)) = {}
    /\ \A k \in Keys :
           /\ ss_count(ThisSimple, k) = (IF k \in given THEN 1 ELSE 0)
           /\ ss_erase(ThisSimple, k).ret = (k \in given)
           /\ MembersSimple(ss_erase(ThisSimple, k)) = given \ {k}
           /\ Alloc(heap) # nullptr =>
                  /\ ss_insert(ThisSimple, k).ret = (k \notin given)
                  /\ MembersSimple(ss_insert(ThisSimple, k)) = given \cup {k}
                  /\ ss_insert(ThisSimple, k).load
                         = Cardinality(NonNull(ss_insert(ThisSimple, k).arr))

\* an insert has just returned true in a grown table that holds tombstones,
\* and the insert of some absent key would go into a tombstoned slot
C36_Witness ==
    /\ last.op = "insert" /\ last.ret = TRUE
    /\ Capacity(_arr) > DefaultCapacity
    /\ _load > _size
    /\ \E k \in Keys \ given :
           /\ Alloc(heap) # nullptr
           /\ ss_insert(ThisSimple, k).ret
           /\ ss_insert(ThisSimple, k).load = _load

\* C37: simple_set never orphans a node: after any sequence of insert, erase,
\* grow and clear, every heap node that has been allocated and not freed,
\* alive or tombstoned, is referenced by exactly one slot of the current
\* backing buffer; the nodes of the old buffer that grow does not carry over
\* are freed.
C37_NoOrphans ==
    /\ Allocated(heap) = Referenced(_arr)
    /\ \A i, j \in NonNull(_arr) : _arr[i] = _arr[j] => i = j
    /\ \A p \in Addrs : heap[p].state # "double_freed"

\* the branch operator=(inline_set_node&&) takes for *this = lhs and rhs
MoveBranch(lhs, rhs) ==
    IF lhs.alive /\ rhs.alive THEN "swap_values"
    ELSE IF lhs.alive THEN "this_into_rhs"
    ELSE IF rhs.alive THEN "rhs_into_this"
    ELSE "neither_alive"

RECURSIVE MovesOfInsertNode(_, _, _)
\* the branches taken by the move operations of _insert_into(node&&) from
\* step i on, at slot off: arr[off] = std::move(node) into a slot that is not
\* alive; auto temp = std::move(arr[off]), arr[off] = std::move(node) and the
\* recursive call on a steal
MovesOfInsertNodeAt(a, node, i, off) ==
    IF ~a[off].alive
        THEN {MoveBranch(a[off], node)}
    ELSE IF node.probes > a[off].probes
        THEN {MoveBranch(DefaultNode, a[off]),
              MoveBranch(MoveConstruct(a[off]).rhs, node)}
             \cup MovesOfInsertNode(
                      [a EXCEPT ![off] = MoveAssign(MoveConstruct(a[off]).rhs, node).lhs],
                      MoveConstruct(a[off]).lhs,
                      MoveConstruct(a[off]).lhs.probes)
    ELSE MovesOfInsertNode(a, [node EXCEPT !.probes = (node.probes + 1) % DistModulus],
                           i + 1)

MovesOfInsertNode(a, node, i) ==
    IF ~node.alive
        THEN {MoveBranch(DefaultNode, node)}
        ELSE MovesOfInsertNodeAt(a, node, i, Offset(hash_of(node), i, Capacity(a)) + 1)

RECURSIVE MovesOfInsertKey(_, _, _, _)
\* the branches taken by the move operations of _insert_into(key) from step
\* i on: auto node = std::move(arr[off]) and the call that re-inserts node
MovesOfInsertKeyAt(a, key, i, probe_count, off) ==
    IF ~a[off].alive \/ get(a[off]) = key
        THEN {}
    ELSE IF probe_count > a[off].probes
        THEN {MoveBranch(DefaultNode, a[off])}
             \cup MovesOfInsertNode(
                      [a EXCEPT ![off] = construct_node(MoveConstruct(a[off]).rhs,
                                                        SeqHash(key), probe_count, key)],
                      MoveConstruct(a[off]).lhs,
                      MoveConstruct(a[off]).lhs.probes)
    ELSE MovesOfInsertKey(a, key, i + 1, (probe_count + 1) % DistModulus)

MovesOfInsertKey(a, key, i, probe_count) ==
    MovesOfInsertKeyAt(a, key, i, probe_count, Offset(HashOf(key), i, Capacity(a)) + 1)

RECURSIVE MovesOfShift(_, _, _)
\* the branches taken by arr[seq.offset()] = std::move(arr[next]) in the
\* backward shift of _try_erase from step i on
MovesOfShiftAt(a, hash, i, cur, next) ==
    IF a[next].alive /\ a[next].probes # 0
        THEN {MoveBranch(a[cur], a[next])}
             \cup MovesOfShift(
                      _try_erase_pull(a, cur, next,
                          MoveAssign(a[cur],
                              [a[next] EXCEPT !.probes = (a[next].probes - 1) % DistModulus])),
                      hash, i + 1)
        ELSE {}

MovesOfShift(a, hash, i) ==
    MovesOfShiftAt(a, hash, i, Offset(hash, i, Capacity(a)) + 1,
                   Offset(hash, i + 1, Capacity(a)) + 1)

\* the branches taken by the move operations of erase(key) on table t
MovesOfErase(t, key) ==
    IF ~erase(t, key).ret
        THEN {}
        ELSE MovesOfShift([t.arr EXCEPT ![SlotOf(t.arr, key)] = destroy(t.arr[SlotOf(t.arr, key)])],
                          HashOf(key), WalkLen(t.arr, key))

RECURSIVE MovesOfGrow(_, _, _)
\* the branches taken by the move operations of _grow_table from element i
\* of the old buffer on, with new_arr filled so far
MovesOfGrow(old, i, new_arr) ==
    IF i > Len(old)
        THEN {}
    ELSE IF old[i].alive
        THEN MovesOfInsertNode(new_arr, [old[i] EXCEPT !.probes = 0], 0)
             \cup MovesOfGrow(old, i + 1,
                              _insert_into_node(0, new_arr, [old[i] EXCEPT !.probes = 0]).arr)
    ELSE MovesOfGrow(old, i + 1, new_arr)

\* the branches taken by the move operations of insert(key) on table t
MovesOfInsert(t, key) ==
    (IF _should_grow(t)
         THEN MovesOfGrow(t.arr, 1, NewBuffer(NextCapacity(Capacity(t.arr))))
         ELSE {})
    \cup MovesOfInsertKey(insert_grow(t).arr, key, 0, 0)

\* the move from rhs into a node that is not alive is a full transfer: the
\* destination holds what rhs held, rhs is left empty
FullTransfer(rhs) ==
    /\ MoveConstruct(rhs).lhs = rhs
    /\ ~MoveConstruct(rhs).rhs.alive
    /\ MoveConstruct(rhs).rhs.value = NoKey

\* C38: an inline slot move is only ever a full transfer: during insert with
\* stealing, erase with backward shift and grow, every move between two
\* inline nodes has an occupied source and an empty destination, so the
\* destination receives the value, probe distance and cached hash of the
\* source and the source becomes empty; the branch that exchanges only the
\* values of two occupied nodes and the branch that moves an occupied
\* destination into an empty source are never reached.
C38_MovesAreTransfers ==
    /\ \A i \in Live(_arr) : FullTransfer(_arr[i])
    /\ MovesOfGrow(_arr, 1, NewBuffer(NextCapacity(Capacity(_arr)))) \subseteq {"rhs_into_this"}
    /\ \A k \in Keys :
           /\ MovesOfInsert(This, k) \subseteq {"rhs_into_this"}
           /\ MovesOfErase(This, k) \subseteq {"rhs_into_this"}

\* an erase has just pulled entries back; from here the insert of some key
\* steals a slot, the erase of some key shifts a run back, and a growth
\* would move every entry
C38_Witness ==
    /\ last.op = "erase" /\ last.ret = TRUE
    /\ StoreHash
    /\ \E k \in Keys : MovesOfInsert(This, k) # {}
    /\ \E k \in Keys : MovesOfErase(This, k) # {}
    /\ MovesOfGrow(_arr, 1, NewBuffer(NextCapacity(Capacity(_arr)))) # {}

====
